---- MODULE Spec2Model ----
(***************************************************************************)
(* Model of the stress-inference decision pipeline of js/detection.js:     *)
(* the backend probe (checkBackendHealth), the remote inference client     *)
(* (detectWithBackend), the face-api.js model loader (loadFaceApiModels),  *)
(* the client-side analyzers (detectClientSide, detectWithFaceApi,         *)
(* processDetections, detectClientSideFallback), the orchestrator          *)
(* (detectStress), getKNNResults and the persisted result log.             *)
(*                                                                         *)
(* JavaScript is single threaded: every action below is one run of the     *)
(* event loop, from the resumption of an awaited promise to the next       *)
(* await that needs the network, the image decoder or a model download.    *)
(* Numbers that are fractions in the source are kept as scaled integers;   *)
(* the scale is stated at each definition.                                 *)
(***************************************************************************)
EXTENDS Integers, Sequences, FiniteSets, TLC

\* ------------------------------------------------------------------ bounds
\* number of detectStress() invocations in one run
MaxDetections == 2
\* number of getKNNResults() invocations in one run
MaxKnn == 1
\* number of entries the persisted result log may hold
MaxHistory == 2

\* -------------------------------------------------------- JavaScript values
\* a property that is absent / the value undefined
Undefined == "undefined"
\* a non-string value inherited from Object.prototype (a function or object)
ProtoValue == "[object inherited from Object.prototype]"
\* NaN in a scaled-integer score
NaN == -1

\* ------------------------------------------------------------ program data
EmotionNames == <<"Neutral", "Happy", "Sad", "Angry", "Fearful", "Disgusted", "Surprised">>

CanonicalEmotions == {EmotionNames[i] : i \in 1..7}

\* EMOTIONS[e].stressFactor
EMOTIONS == [e \in CanonicalEmotions |->
               CASE e \in {"Neutral", "Happy"} -> "Low"
                 [] e = "Surprised" -> "Medium"
                 [] OTHER -> "High"]

StressLevels == {"Low", "Medium", "High"}

FEATURE_LEVELS == <<"Normal", "Mild", "Moderate", "High", "Severe">>

FeatureLevelSet == {FEATURE_LEVELS[i] : i \in 1..5}

\* the own properties of the EMOTION_ALIASES object literal
AliasKeys == {"Fear", "Disgust", "Surprise", "fear", "disgust", "surprise",
              "happy", "sad", "angry", "neutral"}

EMOTION_ALIASES == [k \in AliasKeys |->
                      CASE k \in {"Fear", "fear"} -> "Fearful"
                        [] k \in {"Disgust", "disgust"} -> "Disgusted"
                        [] k \in {"Surprise", "surprise"} -> "Surprised"
                        [] k = "happy" -> "Happy"
                        [] k = "sad" -> "Sad"
                        [] k = "angry" -> "Angry"
                        [] k = "neutral" -> "Neutral"]

\* EMOTION_ALIASES is a plain object: a property read EMOTION_ALIASES[k]
\* that finds no own property continues in Object.prototype, whose
\* properties are functions and objects, all truthy.
ObjectPrototypeKeys == {"constructor", "toString", "valueOf", "hasOwnProperty", "__proto__"}

\* the value of the expression EMOTION_ALIASES[k]
AliasLookup(k) ==
    IF k \in AliasKeys THEN EMOTION_ALIASES[k]
    ELSE IF k \in ObjectPrototypeKeys THEN ProtoValue
    ELSE Undefined

\* let emotion = result.emotion; if (EMOTION_ALIASES[emotion]) emotion = EMOTION_ALIASES[emotion];
NormalizeEmotion(emotion) ==
    IF AliasLookup(emotion) # Undefined THEN AliasLookup(emotion) ELSE emotion

\* calculateStressLevel(emotion, features)
calculateStressLevel(emotion) ==
    IF emotion \in CanonicalEmotions THEN EMOTIONS[emotion] ELSE "Medium"

\* Math.min / Math.max on integers
Min(a, b) == IF a < b THEN a ELSE b

Max(a, b) == IF a > b THEN a ELSE b

\* index (0..4) of a feature level, -1 for any other value
FeatureIndex(level) ==
    IF level \in FeatureLevelSet
    THEN (CHOOSE i \in 1..5 : FEATURE_LEVELS[i] = level) - 1
    ELSE -1

\* The sums of calculateReliefUrgency whose IEEE-754 double value falls just
\* below a half although the exact sum ends in .5 (2 + 0.3 + 0.3 + 0.9 is
\* 3.4999999999999996): <<base + emotion bonus, level indices in any order>>
RoundsDown(b, i, j, k) ==
    \/ b = 2 /\ \E p \in {<<1, 1, 3>>, <<1, 3, 1>>, <<3, 1, 1>>} : p = <<i, j, k>>
    \/ b \in {5, 6} /\ \E p \in {<<1, 2, 2>>, <<2, 1, 2>>, <<2, 2, 1>>} : p = <<i, j, k>>

\* calculateReliefUrgency without the final clamp to 1..10
calculateReliefUrgency_NoClamp(stressLevel, emotion, eyeStrain, browTension, facialFatigue) ==
    LET base == CASE stressLevel = "Low" -> 2
                  [] stressLevel = "Medium" -> 5
                  [] stressLevel = "High" -> 8
                  [] OTHER -> 5
        emo == IF emotion \in {"Angry", "Fearful", "Sad", "Disgusted"} THEN 1 ELSE 0
        ix(l) == Max(0, FeatureIndex(l))
        tenths == 10 * (base + emo) + 3 * (ix(eyeStrain) + ix(browTension) + ix(facialFatigue))
    IN IF RoundsDown(base + emo, ix(eyeStrain), ix(browTension), ix(facialFatigue))
       THEN tenths \div 10
       ELSE (tenths + 5) \div 10

\* calculateReliefUrgency, in tenths: the feature contributions are
\* 0, 0.3, 0.6, 0.9, 1.2, i.e. 3 tenths per level index (x || 0 for any
\* other value); Math.round(x) is floor(x + 0.5)
calculateReliefUrgency(stressLevel, emotion, eyeStrain, browTension, facialFatigue) ==
    LET base == CASE stressLevel = "Low" -> 2
                  [] stressLevel = "Medium" -> 5
                  [] stressLevel = "High" -> 8
                  [] OTHER -> 5
        emo == IF emotion \in {"Angry", "Fearful", "Sad", "Disgusted"} THEN 1 ELSE 0
        ix(l) == Max(0, FeatureIndex(l))
        tenths == 10 * (base + emo) + 3 * (ix(eyeStrain) + ix(browTension) + ix(facialFatigue))
        rounded == IF RoundsDown(base + emo, ix(eyeStrain), ix(browTension), ix(facialFatigue))
                   THEN tenths \div 10
                   ELSE (tenths + 5) \div 10
    IN Max(1, Min(10, rounded))

\* ------------------------------------------------ history/trend aggregator
\* name and email of the user record that the login handler stores as currentUser
UserName == "Asha"

UserEmail == "asha@example.com"

\* An entry of the persisted result log as its readers see it: stressLevel,
\* the age of timestamp in whole days before now, the hour of day of
\* timestamp and userEmail (the other properties of a stored result are
\* not kept). isNull marks a JSON null in the stored array. LogEntry is the
\* entry of a scan of the logged-in user.
LogEntry(level, age, hour) ==
    [isNull |-> FALSE, stressLevel |-> level, age |-> age, hour |-> hour,
     userEmail |-> UserEmail]

NullEntry ==
    [isNull |-> TRUE, stressLevel |-> Undefined, age |-> 0, hour |-> 0,
     userEmail |-> Undefined]

\* weekAgo.setDate(weekAgo.getDate() - 7)
WindowDays == 7

\* results.filter(r => new Date(r.timestamp) >= weekAgo)
RECURSIVE Last7Days(_)
Last7Days(results) ==
    IF results = <<>> THEN <<>>
    ELSE IF Head(results).age <= WindowDays THEN <<Head(results)>> \o Last7Days(Tail(results))
    ELSE Last7Days(Tail(results))

\* reading r.timestamp of a null entry is a TypeError
AnalyzeThrows(results) == \E i \in 1..Len(results) : results[i].isNull

\* stressValues[r.stressLevel]; NaN stands for undefined, which makes the sum NaN
StressValue(level) ==
    CASE level = "Low" -> 1 [] level = "Medium" -> 2 [] level = "High" -> 3 [] OTHER -> NaN

\* rs.reduce((sum, r) => sum + stressValues[r.stressLevel], 0)
RECURSIVE StressSum(_)
StressSum(rs) ==
    IF rs = <<>> THEN 0
    ELSE LET rest == StressSum(Tail(rs))
             v == StressValue(Head(rs).stressLevel)
         IN IF rest = NaN \/ v = NaN THEN NaN ELSE v + rest

\* number of 'High' entries of rs at hour h
HourCount(rs, h) == Cardinality({i \in 1..Len(rs) : rs[i].stressLevel = "High" /\ rs[i].hour = h})

\* Object.entries(hourCounts) lists integer keys in ascending order; the
\* sort by descending count is stable; slice(0, 3)
PeakTimes(rs) ==
    LET H == {h \in 0..23 : HourCount(rs, h) > 0}
        before(g, h) == \/ HourCount(rs, g) > HourCount(rs, h)
                        \/ HourCount(rs, g) = HourCount(rs, h) /\ g < h
        rank(h) == Cardinality({g \in H : before(g, h)})
    IN [i \in 1..Min(3, Cardinality(H)) |-> CHOOSE h \in H : rank(h) = i - 1]

\* an 'insufficient_data' return that reports an average
InsufficientData_WithAverage ==
    [trend |-> "insufficient_data", avgStress |-> "Low", peakTimes |-> <<>>,
     hasTotal |-> FALSE, totalScansThisWeek |-> 0,
     improvementRate |-> 0, rateIsNaN |-> FALSE]

\* the StressTrend of the 'insufficient_data' return: no totalScansThisWeek
InsufficientData ==
    [trend |-> "insufficient_data", avgStress |-> "null", peakTimes |-> <<>>,
     hasTotal |-> FALSE, totalScansThisWeek |-> 0,
     improvementRate |-> 0, rateIsNaN |-> FALSE]

\* analyzeStressTrends with the rate taken as secondAvg - firstAvg
analyzeStressTrends_RateReversed(results) ==
    LET last7Days == Last7Days(results)
        n == Len(last7Days)
        sum == StressSum(last7Days)
        firstHalf == SubSeq(last7Days, 1, n \div 2)
        secondHalf == SubSeq(last7Days, n \div 2 + 1, n)
        n1 == IF Len(firstHalf) > 0 THEN Len(firstHalf) ELSE n
        s1 == IF Len(firstHalf) > 0 THEN StressSum(firstHalf) ELSE sum
        n2 == Len(secondHalf)
        s2 == StressSum(secondHalf)
        nan == s1 = NaN \/ s2 = NaN
        trend == IF nan THEN "stable"
                 ELSE IF 10 * s2 * n1 < 10 * s1 * n2 - 3 * n1 * n2 THEN "improving"
                 ELSE IF 10 * s2 * n1 > 10 * s1 * n2 + 3 * n1 * n2 THEN "worsening"
                 ELSE "stable"
        avgStress == IF sum = NaN THEN "High"
                     ELSE IF 2 * sum <= 3 * n THEN "Low"
                     ELSE IF 2 * sum <= 5 * n THEN "Medium"
                     ELSE "High"
        num == (s2 * n1 - s1 * n2) * 333
        den == 10 * n1 * n2
    IN IF n = 0 THEN InsufficientData
       ELSE [trend |-> trend, avgStress |-> avgStress, peakTimes |-> PeakTimes(last7Days),
             hasTotal |-> TRUE, totalScansThisWeek |-> n,
             improvementRate |-> IF nan THEN 0 ELSE (2 * num + den) \div (2 * den),
             rateIsNaN |-> nan]

\* analyzeStressTrends() on a log without null entries. Averages are
\* compared as fractions: s2/n2 < s1/n1 - 0.3 iff 10*s2*n1 < 10*s1*n2 - 3*n1*n2.
\* improvementRate is Math.round((firstAvg - secondAvg) * 33.3).
analyzeStressTrends(results) ==
    LET last7Days == Last7Days(results)
        n == Len(last7Days)
        sum == StressSum(last7Days)
        firstHalf == SubSeq(last7Days, 1, n \div 2)
        secondHalf == SubSeq(last7Days, n \div 2 + 1, n)
        n1 == IF Len(firstHalf) > 0 THEN Len(firstHalf) ELSE n
        s1 == IF Len(firstHalf) > 0 THEN StressSum(firstHalf) ELSE sum
        n2 == Len(secondHalf)
        s2 == StressSum(secondHalf)
        nan == s1 = NaN \/ s2 = NaN
        trend == IF nan THEN "stable"
                 ELSE IF 10 * s2 * n1 < 10 * s1 * n2 - 3 * n1 * n2 THEN "improving"
                 ELSE IF 10 * s2 * n1 > 10 * s1 * n2 + 3 * n1 * n2 THEN "worsening"
                 ELSE "stable"
        avgStress == IF sum = NaN THEN "High"
                     ELSE IF 2 * sum <= 3 * n THEN "Low"
                     ELSE IF 2 * sum <= 5 * n THEN "Medium"
                     ELSE "High"
        num == (s1 * n2 - s2 * n1) * 333
        den == 10 * n1 * n2
    IN IF n = 0 THEN InsufficientData
       ELSE [trend |-> trend, avgStress |-> avgStress, peakTimes |-> PeakTimes(last7Days),
             hasTotal |-> TRUE, totalScansThisWeek |-> n,
             improvementRate |-> IF nan THEN 0 ELSE (2 * num + den) \div (2 * den),
             rateIsNaN |-> nan]

\* --------------------------------------------------- pixel-heuristic analyzer
\* detectSkinTone(r, g, b) in thousandths: ratio1 = r/(g+1), ratio2 = r/(b+1)
detectSkinTone(r, g, b) ==
    IF /\ 10 * r > 9 * (g + 1) /\ 10 * r < 18 * (g + 1)
       /\ 10 * r > 8 * (b + 1) /\ 10 * r < 25 * (b + 1)
       /\ r > 80
    THEN Min(1000, (250 * r) \div (g + 1) + (250 * r) \div (b + 1))
    ELSE 300

\* calculateImageQuality(brightness, contrast) in thousandths
calculateImageQuality(brightness, contrast) ==
    LET dist == IF brightness > 128 THEN brightness - 128 ELSE 128 - brightness
        brightnessScore == 1000 - (1000 * dist) \div 128
        contrastScore == Min(1000, (1000 * contrast) \div 50)
    IN (6 * brightnessScore + 4 * contrastScore) \div 10

\* analyzeImageData: the features of a decoded image with the given channel
\* means and contrast (img.onload), or the fixed features of img.onerror
analyzeImageData(image) ==
    IF image.decodes
    THEN LET brightness == (299 * image.red + 587 * image.green + 114 * image.blue) \div 1000
         IN [brightness |-> brightness, contrast |-> image.contrast,
             redChannel |-> image.red,
             skinToneScore |-> detectSkinTone(image.red, image.green, image.blue),
             imageQuality |-> calculateImageQuality(brightness, image.contrast)]
    ELSE [brightness |-> 128, contrast |-> 50, redChannel |-> 128,
          skinToneScore |-> 500, imageQuality |-> 700]

Pair(e, p) == [emotion |-> e, prob |-> p]

\* the emotionScores table selected by detectEmotionClientSide, in
\* thousandths and in the insertion order of its properties
EmotionScores(features) ==
    IF features.brightness > 140 /\ features.skinToneScore > 500
    THEN <<Pair("Happy", 350), Pair("Neutral", 300), Pair("Surprised", 150), Pair("Sad", 50),
           Pair("Angry", 50), Pair("Fearful", 50), Pair("Disgusted", 50)>>
    ELSE IF features.brightness < 100 \/ features.redChannel > 150
    THEN <<Pair("Sad", 250), Pair("Angry", 200), Pair("Fearful", 150), Pair("Neutral", 150),
           Pair("Disgusted", 100), Pair("Happy", 80), Pair("Surprised", 70)>>
    ELSE IF features.contrast > 60
    THEN <<Pair("Angry", 220), Pair("Fearful", 180), Pair("Surprised", 180), Pair("Neutral", 150),
           Pair("Sad", 120), Pair("Disgusted", 100), Pair("Happy", 50)>>
    ELSE <<Pair("Neutral", 350), Pair("Happy", 200), Pair("Sad", 120), Pair("Surprised", 120),
           Pair("Angry", 80), Pair("Fearful", 70), Pair("Disgusted", 60)>>

RECURSIVE SumProb(_)
SumProb(ps) == IF ps = <<>> THEN 0 ELSE Head(ps).prob + SumProb(Tail(ps))

\* The dominant-emotion loop: the first entry, in iteration order, whose
\* probability is strictly above every earlier one and above 0; start when
\* no entry is above 0.
RECURSIVE Dominant(_, _, _)
Dominant(ps, start, maxProb) ==
    IF ps = <<>> THEN start
    ELSE IF Head(ps).prob > maxProb THEN Dominant(Tail(ps), Head(ps).emotion, Head(ps).prob)
    ELSE Dominant(Tail(ps), start, maxProb)

RECURSIVE MaxProb(_)
MaxProb(ps) == IF ps = <<>> THEN 0 ELSE Max(Head(ps).prob, MaxProb(Tail(ps)))

\* detectEmotionClientSide taking the dominant emotion from the score table
detectEmotionClientSide_FromScores(features, jitter) ==
    LET scores == EmotionScores(features)
        raw == [i \in 1..7 |-> Pair(scores[i].emotion, Max(10, scores[i].prob + jitter[i]))]
        total == SumProb(raw)
        allProbabilities == [i \in 1..7 |->
            Pair(raw[i].emotion, (200 * raw[i].prob + total) \div (2 * total))]
    IN [emotion |-> Dominant(scores, "Neutral", 0),
        allProbabilities |-> allProbabilities]

\* detectEmotionClientSide(features): jitter[i] is (Math.random() - 0.5) * 0.1
\* of the i-th category in thousandths; Math.round(p / total * 100)
detectEmotionClientSide(features, jitter) ==
    LET scores == EmotionScores(features)
        raw == [i \in 1..7 |-> Pair(scores[i].emotion, Max(10, scores[i].prob + jitter[i]))]
        total == SumProb(raw)
        allProbabilities == [i \in 1..7 |->
            Pair(raw[i].emotion, (200 * raw[i].prob + total) \div (2 * total))]
    IN [emotion |-> Dominant(allProbabilities, "Neutral", 0),
        allProbabilities |-> allProbabilities]

\* Math.floor(Math.random() * k) for a Math.random() value u in thousandths
RandomBelow(u, k) == (u * k) \div 1000

\* calculateFacialFeatures(stressLevel, features): u is the triple of
\* Math.random() values, in thousandths
calculateFacialFeatures(stressLevel, features, u) ==
    LET eyeStrainIndex == CASE stressLevel = "High" -> 3 + RandomBelow(u[1], 2)
                            [] stressLevel = "Medium" -> 1 + RandomBelow(u[1], 3)
                            [] OTHER -> RandomBelow(u[1], 2)
        brow0 == CASE stressLevel = "High" -> 2 + RandomBelow(u[2], 3)
                   [] stressLevel = "Medium" -> 1 + RandomBelow(u[2], 2)
                   [] OTHER -> RandomBelow(u[2], 2)
        fat0 == CASE stressLevel = "High" -> 2 + RandomBelow(u[3], 3)
                  [] stressLevel = "Medium" -> 1 + RandomBelow(u[3], 2)
                  [] OTHER -> RandomBelow(u[3], 2)
        fatigueIndex == IF features.brightness < 100 THEN Min(fat0 + 1, 4) ELSE fat0
        browTensionIndex == IF features.contrast > 60 THEN Min(brow0 + 1, 4) ELSE brow0
    IN [eyeStrain |-> FEATURE_LEVELS[eyeStrainIndex + 1],
        browTension |-> FEATURE_LEVELS[browTensionIndex + 1],
        facialFatigue |-> FEATURE_LEVELS[fatigueIndex + 1]]

\* calculateConfidence(features, stressLevel) for u = Math.random() in
\* thousandths: clamp(imageQuality*60 + skinToneScore*30 + u*15 - 5, 70, 95), rounded
calculateConfidence(features, u) ==
    LET c == 60 * features.imageQuality + 30 * features.skinToneScore + 15 * u - 5000
    IN (Max(70000, Min(95000, c)) + 500) \div 1000

\* ------------------------------------------------ client-side landmark analyzer
\* analyzeFacialLandmarks on the geometry g of one face. Scores are in
\* thousandths. g.eyeOpenness is avgEyeOpenness in thousandths, NaN when an
\* eye has height 0 and width 0 (0/0); g.browDistance is avgBrowDistance in
\* pixels; g.mouthRatio is mouthWidth/mouthHeight in hundredths;
\* g.darkCircle is darkCircleScore; g.browVariance is in pixels; g.throws
\* is a landmark read that throws (the catch returns 0.3 for every score).
\* fatigueScore is kept in 1e-5 and overallStressScore in 1e-6 units.
analyzeFacialLandmarks(g) ==
    IF g.throws
    THEN [eyeFatigueScore |-> 300, browTensionScore |-> 300,
          fatigue5 |-> 30000, overall6 |-> 300000]
    ELSE LET eye == IF g.eyeOpenness = NaN THEN NaN
                    ELSE Max(0, Min(1000, (350 - g.eyeOpenness) * 4))
             brow == Max(0, Min(1000, ((15 - g.browDistance) * 1000) \div 30))
             mouth == IF g.mouthRatio > 400 THEN 700
                      ELSE IF g.mouthRatio > 300 THEN 400 ELSE 200
             wrinkle4 == Min(10000, g.browVariance * 1000 + brow * 5)
             fatigue5 == IF eye = NaN THEN NaN
                         ELSE 30 * eye + 30 * g.darkCircle + 20 * mouth + 2 * wrinkle4
             overall6 == IF eye = NaN THEN NaN
                         ELSE 250 * eye + 300 * brow + 150 * mouth + 200 * g.darkCircle + fatigue5
         IN [eyeFatigueScore |-> eye, browTensionScore |-> brow,
             fatigue5 |-> fatigue5, overall6 |-> overall6]

\* FEATURE_LEVELS[Math.min(4, Math.floor(score * 5))] for a score given as
\* num/unit; FEATURE_LEVELS[NaN] is undefined
LevelOfScore(num, unit) ==
    IF num = NaN THEN Undefined ELSE FEATURE_LEVELS[Min(4, (num * 5) \div unit) + 1]

\* the position of the entry of e in a probability map
ProbIndex(ps, e) == (CHOOSE i \in 1..Len(ps) : ps[i].emotion = e)

\* a probability map with the entry of e replaced
WithProb(ps, e, v) == [i \in 1..Len(ps) |-> IF ps[i].emotion = e THEN Pair(e, v) ELSE ps[i]]

\* the fields every DetectionResult of the model carries; a field the code
\* leaves out has its has-flag FALSE
NoTrends == [trend |-> Undefined, avgStress |-> Undefined, peakTimes |-> <<>>,
             hasTotal |-> FALSE, totalScansThisWeek |-> 0,
             improvementRate |-> 0, rateIsNaN |-> FALSE]

\* the property names of detection.expressions, in face-api.js order
ExpressionKeys == <<"neutral", "happy", "sad", "angry", "fearful", "disgusted", "surprised">>

\* Object.entries(d.expressions).reduce((a, b) => b[1] > a[1] ? b : a)[0]:
\* the first key, in property order, with the highest value
RECURSIVE ArgMaxFrom(_, _, _)
ArgMaxFrom(xs, i, best) ==
    IF i > Len(xs) THEN best
    ELSE ArgMaxFrom(xs, i + 1, IF xs[i] > xs[best] THEN i ELSE best)

\* EMOTIONS[emotion]?.stressFactor || 'Medium'
StressFactorOrMedium(emotion) ==
    IF emotion \in CanonicalEmotions THEN EMOTIONS[emotion] ELSE "Medium"

\* the entry of allFaces that processDetections builds for a detected face
FaceSummary(face) ==
    LET key == ExpressionKeys[ArgMaxFrom(face.expressions, 2, 1)]
    IN [emotion |-> key, stressLevel |-> StressFactorOrMedium(key)]

MethodCNN == "CNN Model (Backend)"

MethodFaceApi == "Face-API.js Neural Network"

MethodFallback == "Image Analysis (Fallback)"

MethodDefault == "Default"

\* processDetections with the adjusted probabilities left unclamped
processDetections_NoClamp(face, results, hour) ==
    LET facialAnalysis == analyzeFacialLandmarks(face.geometry)
        p0 == [i \in 1..7 |-> Pair(EmotionNames[i], face.expressions[i])]
        dominant0 == Dominant(p0, "Neutral", 0)
        p1 == IF facialAnalysis.browTensionScore > 600 /\ p0[ProbIndex(p0, "Angry")].prob > 15
              THEN WithProb(WithProb(p0, "Angry", p0[ProbIndex(p0, "Angry")].prob + 20),
                            "Neutral", p0[ProbIndex(p0, "Neutral")].prob - 15)
              ELSE p0
        p2 == IF facialAnalysis.eyeFatigueScore > 500
              THEN WithProb(WithProb(p1, "Sad", p1[ProbIndex(p1, "Sad")].prob + 15),
                            "Neutral", p1[ProbIndex(p1, "Neutral")].prob - 10)
              ELSE p1
        dominantEmotion == Dominant(p2, dominant0, 0)
        maxProb == MaxProb(p2)
        base == EMOTIONS[dominantEmotion]
        stressLevel == IF facialAnalysis.overall6 > 700000 /\ base = "Low" THEN "Medium"
                       ELSE IF facialAnalysis.overall6 > 800000 /\ base = "Medium" THEN "High"
                       ELSE base
        eyeStrain == LevelOfScore(facialAnalysis.eyeFatigueScore, 1000)
        browTension == LevelOfScore(facialAnalysis.browTensionScore, 1000)
        facialFatigue == LevelOfScore(facialAnalysis.fatigue5, 100000)
    IN [emotion |-> dominantEmotion, stressLevel |-> stressLevel,
        eyeStrain |-> eyeStrain, browTension |-> browTension, facialFatigue |-> facialFatigue,
        confidence |-> (maxProb * 85 + 1550) \div 100,
        hour |-> hour,
        detectionMethod |-> MethodFaceApi,
        allProbabilities |-> p2,
        hasReliefUrgency |-> TRUE,
        reliefUrgency |-> calculateReliefUrgency(stressLevel, dominantEmotion, eyeStrain,
                                                 browTension, facialFatigue),
        hasStressTrends |-> TRUE,
        stressTrends |-> analyzeStressTrends(results),
        hasFaces |-> TRUE, facesCount |-> 1, allFaces |-> <<FaceSummary(face)>>,
        combinedStressLevel |-> Undefined,
        hasUser |-> FALSE, userName |-> Undefined, userEmail |-> Undefined]

\* processDetections(detections, img) for a log without null entries:
\* face.expressions holds Math.round(expressions.x * 100) in the order
\* Neutral, Happy, Sad, Angry, Fearful, Disgusted, Surprised
processDetections(face, results, hour) ==
    LET facialAnalysis == analyzeFacialLandmarks(face.geometry)
        p0 == [i \in 1..7 |-> Pair(EmotionNames[i], face.expressions[i])]
        dominant0 == Dominant(p0, "Neutral", 0)
        p1 == IF facialAnalysis.browTensionScore > 600 /\ p0[ProbIndex(p0, "Angry")].prob > 15
              THEN WithProb(WithProb(p0, "Angry", Min(100, p0[ProbIndex(p0, "Angry")].prob + 20)),
                            "Neutral", Max(0, p0[ProbIndex(p0, "Neutral")].prob - 15))
              ELSE p0
        p2 == IF facialAnalysis.eyeFatigueScore > 500
              THEN WithProb(WithProb(p1, "Sad", Min(100, p1[ProbIndex(p1, "Sad")].prob + 15)),
                            "Neutral", Max(0, p1[ProbIndex(p1, "Neutral")].prob - 10))
              ELSE p1
        dominantEmotion == Dominant(p2, dominant0, 0)
        maxProb == MaxProb(p2)
        base == EMOTIONS[dominantEmotion]
        stressLevel == IF facialAnalysis.overall6 > 700000 /\ base = "Low" THEN "Medium"
                       ELSE IF facialAnalysis.overall6 > 800000 /\ base = "Medium" THEN "High"
                       ELSE base
        eyeStrain == LevelOfScore(facialAnalysis.eyeFatigueScore, 1000)
        browTension == LevelOfScore(facialAnalysis.browTensionScore, 1000)
        facialFatigue == LevelOfScore(facialAnalysis.fatigue5, 100000)
    IN [emotion |-> dominantEmotion, stressLevel |-> stressLevel,
        eyeStrain |-> eyeStrain, browTension |-> browTension, facialFatigue |-> facialFatigue,
        confidence |-> (maxProb * 85 + 1550) \div 100,
        hour |-> hour,
        detectionMethod |-> MethodFaceApi,
        allProbabilities |-> p2,
        hasReliefUrgency |-> TRUE,
        reliefUrgency |-> calculateReliefUrgency(stressLevel, dominantEmotion, eyeStrain,
                                                 browTension, facialFatigue),
        hasStressTrends |-> TRUE,
        stressTrends |-> analyzeStressTrends(results),
        hasFaces |-> TRUE, facesCount |-> 1, allFaces |-> <<FaceSummary(face)>>,
        combinedStressLevel |-> Undefined,
        hasUser |-> FALSE, userName |-> Undefined, userEmail |-> Undefined]

\* detectClientSideFallback(imageDataUrl) for a log without null entries
detectClientSideFallback(image, jitter, u, results, hour) ==
    LET features == analyzeImageData(image)
        emotionResult == detectEmotionClientSide(features, jitter)
        emotion == emotionResult.emotion
        stressLevel == calculateStressLevel(emotion)
        facialFeatures == calculateFacialFeatures(stressLevel, features, u)
    IN [emotion |-> emotion, stressLevel |-> stressLevel,
        eyeStrain |-> facialFeatures.eyeStrain, browTension |-> facialFeatures.browTension,
        facialFatigue |-> facialFeatures.facialFatigue,
        confidence |-> calculateConfidence(features, u[4]),
        hour |-> hour,
        detectionMethod |-> MethodFallback,
        allProbabilities |-> emotionResult.allProbabilities,
        hasReliefUrgency |-> TRUE,
        reliefUrgency |-> calculateReliefUrgency(stressLevel, emotion, facialFeatures.eyeStrain,
                                                 facialFeatures.browTension,
                                                 facialFeatures.facialFatigue),
        hasStressTrends |-> TRUE,
        stressTrends |-> analyzeStressTrends(results),
        hasFaces |-> FALSE, facesCount |-> 0, allFaces |-> <<>>,
        combinedStressLevel |-> Undefined,
        hasUser |-> FALSE, userName |-> Undefined, userEmail |-> Undefined]

\* --------------------------------------------------- remote inference client
\* x || d for a string field of the response body: the default replaces
\* undefined and the empty string
OrDefault(x, d) == IF x \in {Undefined, ""} THEN d ELSE x

\* x || d for a numeric field: the default replaces an absent field and 0
OrNumber(has, x, d) == IF ~has \/ x = 0 THEN d ELSE x

\* BackendResult with the provenance tag of another analyzer
BackendResult_WrongTag(body, hour) ==
    [emotion |-> NormalizeEmotion(body.emotion), stressLevel |-> body.stressLevel,
     eyeStrain |-> OrDefault(body.eyeStrain, "Normal"),
     browTension |-> OrDefault(body.browTension, "Normal"),
     facialFatigue |-> OrDefault(body.facialFatigue, "Normal"),
     confidence |-> OrNumber(body.hasConfidence, body.confidence, 85),
     hour |-> hour,
     detectionMethod |-> MethodFaceApi,
     allProbabilities |-> <<>>,
     hasReliefUrgency |-> FALSE, reliefUrgency |-> 0,
     hasStressTrends |-> FALSE, stressTrends |-> NoTrends,
     hasFaces |-> TRUE, facesCount |-> OrNumber(body.hasFacesCount, body.facesCount, 1),
     allFaces |-> IF body.hasAllFaces THEN body.allFaces ELSE <<>>,
     combinedStressLevel |-> OrDefault(body.combinedStressLevel, body.stressLevel),
     hasUser |-> FALSE, userName |-> Undefined, userEmail |-> Undefined]

\* the object detectWithBackend returns for a body with success: true
\* (a numeric field of the body has a has-flag; an array is truthy even
\* when empty, so a present allFaces is kept)
BackendResult(body, hour) ==
    [emotion |-> NormalizeEmotion(body.emotion), stressLevel |-> body.stressLevel,
     eyeStrain |-> OrDefault(body.eyeStrain, "Normal"),
     browTension |-> OrDefault(body.browTension, "Normal"),
     facialFatigue |-> OrDefault(body.facialFatigue, "Normal"),
     confidence |-> OrNumber(body.hasConfidence, body.confidence, 85),
     hour |-> hour,
     detectionMethod |-> MethodCNN,
     allProbabilities |-> <<>>,
     hasReliefUrgency |-> FALSE, reliefUrgency |-> 0,
     hasStressTrends |-> FALSE, stressTrends |-> NoTrends,
     hasFaces |-> TRUE, facesCount |-> OrNumber(body.hasFacesCount, body.facesCount, 1),
     allFaces |-> IF body.hasAllFaces THEN body.allFaces ELSE <<>>,
     combinedStressLevel |-> OrDefault(body.combinedStressLevel, body.stressLevel),
     hasUser |-> FALSE, userName |-> Undefined, userEmail |-> Undefined]

\* the default result carrying the tag of the pixel heuristic
DefaultResult_AsFallback(hour) ==
    [emotion |-> "Neutral", stressLevel |-> "Low", eyeStrain |-> "Normal",
     browTension |-> "Normal", facialFatigue |-> "Normal", confidence |-> 75,
     hour |-> hour,
     detectionMethod |-> MethodFallback,
     allProbabilities |-> <<>>,
     hasReliefUrgency |-> FALSE, reliefUrgency |-> 0,
     hasStressTrends |-> FALSE, stressTrends |-> NoTrends,
     hasFaces |-> FALSE, facesCount |-> 0, allFaces |-> <<>>,
     combinedStressLevel |-> Undefined,
     hasUser |-> FALSE, userName |-> Undefined, userEmail |-> Undefined]

\* the result detectStress returns when window.uploadedImage is not set
DefaultResult(hour) ==
    [emotion |-> "Neutral", stressLevel |-> "Low", eyeStrain |-> "Normal",
     browTension |-> "Normal", facialFatigue |-> "Normal", confidence |-> 75,
     hour |-> hour,
     detectionMethod |-> MethodDefault,
     allProbabilities |-> <<>>,
     hasReliefUrgency |-> FALSE, reliefUrgency |-> 0,
     hasStressTrends |-> FALSE, stressTrends |-> NoTrends,
     hasFaces |-> FALSE, facesCount |-> 0, allFaces |-> <<>>,
     combinedStressLevel |-> Undefined,
     hasUser |-> FALSE, userName |-> Undefined, userEmail |-> Undefined]

\* the value of the currentUser item of localStorage: "absent" (no item),
\* the email of the user whose object the login handler stored, "null" (the JSON text
\* null), "garbage" (text that JSON.parse rejects)
\* JSON.parse(localStorage.getItem('currentUser') || '{}') followed by the
\* reads of .name and .email
UserInfoThrows(cu) == cu \in {"null", "garbage"}

\* result.userName = currentUser.name || 'Anonymous'; result.userEmail = currentUser.email || ''
WithUser(r, cu) ==
    [r EXCEPT !.hasUser = TRUE,
              !.userName = IF cu = UserEmail THEN UserName ELSE "Anonymous",
              !.userEmail = IF cu = UserEmail THEN UserEmail ELSE ""]

\* ------------------------------------------------------------- result log
\* The entry that JSON.stringify / JSON.parse make of a result r created
\* now: a property whose value is undefined is left out
Stored(r) ==
    [LogEntry(r.stressLevel, 0, r.hour) EXCEPT
        !.userEmail = IF r.hasUser THEN r.userEmail ELSE Undefined]

\* getResultsHistory()
getResultsHistory(results) == results

OwnResult(r) == r.userEmail = UserEmail

\* getUserStats() for the stored log and currentUser item cu: totalScans
\* and stressDistribution (Low, Medium, High) of the result; avgConfidence
\* and commonEmotion are computed from properties the entries of the model
\* do not keep. threw when JSON.parse, the read of currentUser.email or a
\* read of a null entry throws.
getUserStats(results, cu) ==
    LET userResults == IF cu = UserEmail THEN SelectSeq(results, OwnResult) ELSE results
        n == Len(userResults)
        level(l) == Cardinality({i \in 1..n : userResults[i].stressLevel = l})
    IN IF UserInfoThrows(cu) \/ AnalyzeThrows(results)
       THEN [threw |-> TRUE, totalScans |-> 0, stressDistribution |-> <<0, 0, 0>>]
       ELSE [threw |-> FALSE, totalScans |-> n,
             stressDistribution |-> <<level("Low"), level("Medium"), level("High")>>]

\* ----------------------------------------------------------------- inputs
\* MODEL_URLS.length
NumMirrors == 3

\* API_CONFIG.timeout, in seconds
TimeoutSeconds == 10

\* seconds between two observations of a pending POST
TickSeconds == 5

\* number of observations of a pending POST
MaxTicks == 3

\* hours of day at which results are created
Hours == {9}

\* a response body with success: true; an absent string field is Undefined,
\* an absent numeric or array field has its has-flag FALSE
Body(emotion, stressLevel, eyeStrain, hasConfidence, confidence) ==
    [emotion |-> emotion, stressLevel |-> stressLevel, eyeStrain |-> eyeStrain,
     browTension |-> Undefined, facialFatigue |-> Undefined,
     hasConfidence |-> hasConfidence, confidence |-> confidence,
     hasFacesCount |-> FALSE, facesCount |-> 0,
     hasAllFaces |-> FALSE, allFaces |-> <<>>,
     combinedStressLevel |-> Undefined]

\* response bodies with success: true that the remote service may send:
\* an alias with every level valid, an emotion outside the vocabulary
\* without stressLevel, and an emotion that names a property of
\* Object.prototype
RemoteBodies ==
    {Body("Fear", "High", "Mild", TRUE, 91),
     Body("Contempt", Undefined, Undefined, FALSE, 0),
     Body("constructor", "Low", Undefined, FALSE, 0)}

Geometry(eyeOpenness, browDistance, darkCircle, throws) ==
    [eyeOpenness |-> eyeOpenness, browDistance |-> browDistance, mouthRatio |-> 350,
     darkCircle |-> darkCircle, browVariance |-> 2, throws |-> throws]

Face(expressions, geometry) == [expressions |-> expressions, geometry |-> geometry]

\* first faces that face-api.js may report: a tense face, and a face whose
\* eye landmarks coincide (eye height 0 and width 0)
Faces ==
    {Face(<<40, 5, 10, 40, 2, 2, 1>>, Geometry(100, -9, 900, FALSE)),
     Face(<<5, 90, 1, 1, 1, 1, 1>>, Geometry(NaN, 12, 200, FALSE))}

Image(red, green, blue, contrast, decodes) ==
    [red |-> red, green |-> green, blue |-> blue, contrast |-> contrast, decodes |-> decodes]

\* uploaded images as the pixel heuristic sees them: a dark image and one
\* that does not decode
Images ==
    {Image(60, 60, 60, 20, TRUE),
     Image(0, 0, 0, 0, FALSE)}

\* draws of the seven jitters, in thousandths
Jitters == {<<-50, 49, -50, 49, -50, 49, -50>>}

\* draws of the four Math.random() values of calculateFacialFeatures and
\* calculateConfidence, in thousandths
Randoms == {<<999, 0, 500, 999>>}

\* -------------------------------------------------------------------- state
Threads == {"init", "det", "knn"}

VARIABLES
    pc,                  \* where each asynchronous call chain is suspended
    mirror,              \* index into MODEL_URLS of the download a chain awaits
    backendAvailable,    \* "null", "true" or "false"
    faceApiModelsLoaded,
    faceapiDefined,      \* typeof faceapi !== 'undefined'
    currentUser,         \* localStorage item currentUser
    users,               \* localStorage item users
    stressResults,       \* localStorage item stressResults
    result,              \* value of the last detectStress() call that returned
    outcome,             \* "none", "returned" or "threw" for the last call
    saved,               \* the page has passed result to saveResult
    hadImage,            \* window.uploadedImage was set at the last call
    trace,               \* what the last call did, in order
    rawEmotion,          \* emotion of the response body the last call received
    postWait,            \* seconds the pending POST has waited
    probesIssued,        \* requests sent to /api/health/
    probeLog,            \* how the checkBackendHealth() call that completed last ended
    detections,          \* detectStress() calls started
    knnCalls,            \* getKNNResults() calls started
    knnResult,           \* "none", "payload" or "stub"
    calc                 \* a function of the module applied to an input (see Spec* below)

vars == <<pc, mirror, backendAvailable, faceApiModelsLoaded, faceapiDefined, currentUser,
          users, stressResults, result, outcome, saved, hadImage, trace, rawEmotion, postWait,
          probesIssued, probeLog, detections, knnCalls, knnResult, calc>>

\* every variable but calc
progVars == <<pc, mirror, backendAvailable, faceApiModelsLoaded, faceapiDefined, currentUser,
              users, stressResults, result, outcome, saved, hadImage, trace, rawEmotion, postWait,
              probesIssued, probeLog, detections, knnCalls, knnResult>>

\* no function is being applied on its own
NoCall == [done |-> FALSE]

NoProbe == [outcome |-> "none", flagAfter |-> "null", loadTriggered |-> FALSE]

InitCommon ==
    /\ pc = [t \in Threads |-> "ready"]
    /\ mirror = [t \in Threads |-> 0]
    /\ backendAvailable = "null"
    /\ faceApiModelsLoaded = FALSE
    /\ faceapiDefined \in BOOLEAN
    /\ result = DefaultResult(9)
    /\ outcome = "none"
    /\ saved = FALSE
    /\ hadImage = FALSE
    /\ trace = <<>>
    /\ rawEmotion = Undefined
    /\ postWait = 0
    /\ probesIssued = 0
    /\ probeLog = NoProbe
    /\ detections = 0
    /\ knnCalls = 0
    /\ knnResult = "none"
    /\ users = <<>>

\* the store as the program's own writers leave it: the session of a
\* logged-in user (the login handler; checkAuth sends everybody else to the
\* login page) and a result log that saveResult has not yet written
Init ==
    /\ InitCommon
    /\ currentUser = UserEmail
    /\ stressResults = <<>>
    /\ calc = NoCall

\* --------------------------------------------------------- control transfer
\* detectClientSide up to its first await, for the value loaded of
\* faceApiModelsLoaded: where the chain suspends and what it has done
ClientSideEntry(loaded) ==
    IF ~faceapiDefined
    THEN [pc |-> "c_pixel", mirror |-> 0, ev |-> <<"landmark:unusable", "pixel">>]
    ELSE IF ~loaded
    THEN [pc |-> "c_load", mirror |-> 1, ev |-> <<>>]
    ELSE [pc |-> "c_detect", mirror |-> 0, ev |-> <<"landmark">>]

\* AfterClientLoad with the face-api.js branch skipped: the pixel heuristic
\* runs although the models are loaded
AfterClientLoad_SkipsLandmark(loaded) ==
    [pc |-> "c_pixel", mirror |-> 0,
     ev |-> IF loaded THEN <<"pixel">> ELSE <<"landmark:unusable", "pixel">>]

\* detectClientSide after its await of loadFaceApiModels()
AfterClientLoad(loaded) ==
    IF loaded
    THEN [pc |-> "c_detect", mirror |-> 0, ev |-> <<"landmark">>]
    ELSE [pc |-> "c_pixel", mirror |-> 0, ev |-> <<"landmark:unusable", "pixel">>]

\* the value of backendAvailable that 'if (backendAvailable)' reads
FlagEvent(ba) ==
    CASE ba = "true" -> "flag:true" [] ba = "false" -> "flag:false" [] OTHER -> "flag:null"

\* detectStress from 'if (backendAvailable)' to its next await
Dispatch(ba, loaded) ==
    IF ba = "true"
    THEN [pc |-> "d_post", mirror |-> 0, ev |-> <<FlagEvent(ba), "remote">>]
    ELSE LET n == ClientSideEntry(loaded)
         IN [n EXCEPT !.ev = <<FlagEvent(ba)>> \o n.ev]

\* the det chain moves to the suspension point n
DetGoto(n, events) ==
    /\ pc' = [pc EXCEPT !["det"] = n.pc]
    /\ mirror' = [mirror EXCEPT !["det"] = n.mirror]
    /\ trace' = trace \o events \o n.ev
    /\ postWait' = 0

\* detectStress ends: the user info is attached to r outside any try block
DetReturn(r, events) ==
    /\ pc' = [pc EXCEPT !["det"] = "ready"]
    /\ mirror' = [mirror EXCEPT !["det"] = 0]
    /\ trace' = trace \o events
    /\ postWait' = 0
    /\ IF UserInfoThrows(currentUser)
       THEN outcome' = "threw" /\ UNCHANGED result
       ELSE outcome' = "returned" /\ result' = WithUser(r, currentUser)

\* detectStress ends with an exception
DetThrow(events) ==
    /\ pc' = [pc EXCEPT !["det"] = "ready"]
    /\ mirror' = [mirror EXCEPT !["det"] = 0]
    /\ trace' = trace \o events
    /\ postWait' = 0
    /\ outcome' = "threw"
    /\ UNCHANGED result

\* the caller of checkBackendHealth() resumes after its await, with the
\* flags as the probe left them
Resume(t, ba, loaded) ==
    CASE t = "init" ->
           /\ pc' = [pc EXCEPT ![t] = "finished"]
           /\ mirror' = [mirror EXCEPT ![t] = 0]
           /\ UNCHANGED <<trace, postWait, knnResult>>
      [] t = "det" ->
           /\ DetGoto(Dispatch(ba, loaded), <<>>)
           /\ UNCHANGED knnResult
      [] t = "knn" ->
           /\ pc' = [pc EXCEPT ![t] = IF ba = "true" THEN "k_get" ELSE "ready"]
           /\ mirror' = [mirror EXCEPT ![t] = 0]
           /\ knnResult' = IF ba = "true" THEN knnResult ELSE "stub"
           /\ UNCHANGED <<trace, postWait>>

\* ------------------------------------------------------------ backend probe
\* the script runs: 'checkBackendHealth();' sends the first probe
ScriptInit ==
    /\ pc["init"] = "ready"
    /\ pc' = [pc EXCEPT !["init"] = "h_fetch"]
    /\ probesIssued' = probesIssued + 1
    /\ UNCHANGED <<calc, users, mirror, backendAvailable, faceApiModelsLoaded, faceapiDefined, rawEmotion, currentUser,
                   stressResults, result, outcome, saved, hadImage, trace, postWait,
                   probeLog, detections, knnCalls, knnResult>>

HealthOutcomes == {"network_error", "timeout", "non_2xx", "malformed_body", "unhealthy", "healthy"}

\* checkBackendHealth from the answer to its fetch to its return or to the
\* first download of loadFaceApiModels()
HealthRespond(t, o) ==
    /\ pc[t] = "h_fetch"
    /\ LET caught == o \in {"network_error", "timeout", "malformed_body"}
           ba == CASE o = "healthy" -> "true"
                   [] o = "unhealthy" -> "false"
                   [] o = "non_2xx" -> backendAvailable
                   [] OTHER -> "false"
           downloads == caught /\ ~faceApiModelsLoaded /\ faceapiDefined
       IN /\ backendAvailable' = ba
          /\ IF downloads
             THEN /\ pc' = [pc EXCEPT ![t] = "h_load"]
                  /\ mirror' = [mirror EXCEPT ![t] = 1]
                  /\ UNCHANGED <<trace, postWait, knnResult, probeLog>>
             ELSE /\ probeLog' = [outcome |-> IF caught THEN "caught" ELSE o, flagAfter |-> ba,
                                   loadTriggered |-> caught]
                  /\ Resume(t, ba, faceApiModelsLoaded)
    /\ UNCHANGED <<calc, users, faceApiModelsLoaded, faceapiDefined, rawEmotion, currentUser, stressResults, result,
                   outcome, saved, hadImage, probesIssued, detections, knnCalls>>

\* loadFaceApiModels: the Promise.all of the downloads from MODEL_URLS[mirror]
\* settles; ok is whether all three downloads succeeded
MirrorRespond(t, ok) ==
    /\ pc[t] \in {"h_load", "c_load"}
    /\ LET exhausted == ~ok /\ mirror[t] = NumMirrors
           loaded == IF ok THEN TRUE ELSE IF exhausted THEN FALSE ELSE faceApiModelsLoaded
       IN /\ faceApiModelsLoaded' = loaded
          /\ IF ~ok /\ ~exhausted
             THEN /\ mirror' = [mirror EXCEPT ![t] = mirror[t] + 1]
                  /\ UNCHANGED <<pc, trace, postWait, knnResult, probeLog>>
             ELSE IF pc[t] = "h_load"
             THEN /\ probeLog' = [outcome |-> "caught", flagAfter |-> backendAvailable,
                                   loadTriggered |-> TRUE]
                  /\ Resume(t, backendAvailable, loaded)
             ELSE /\ DetGoto(AfterClientLoad(loaded), <<>>)
                  /\ UNCHANGED <<knnResult, probeLog>>
    /\ UNCHANGED <<calc, users, backendAvailable, faceapiDefined, rawEmotion, currentUser, stressResults, result,
                   outcome, saved, hadImage, probesIssued, detections, knnCalls>>

\* -------------------------------------------------------------- orchestrator
NoResult == DefaultResult(0)

\* detectStress() is called with window.uploadedImage set (img) or not
DetectStress(img, hour) ==
    /\ pc["det"] = "ready"
    /\ pc["init"] # "ready"
    /\ detections < MaxDetections
    /\ detections' = detections + 1
    /\ hadImage' = img
    /\ saved' = FALSE
    /\ IF ~img
       THEN /\ result' = DefaultResult(hour)
            /\ outcome' = "returned"
            /\ trace' = <<>>
            /\ UNCHANGED <<pc, mirror, postWait, probesIssued, probeLog>>
       ELSE /\ result' = NoResult
            /\ outcome' = "none"
            /\ IF backendAvailable = "null"
               THEN /\ pc' = [pc EXCEPT !["det"] = "h_fetch"]
                    /\ probesIssued' = probesIssued + 1
                    /\ trace' = <<>>
                    /\ UNCHANGED <<mirror, postWait, probeLog>>
               ELSE /\ LET n == Dispatch(backendAvailable, faceApiModelsLoaded)
                       IN /\ pc' = [pc EXCEPT !["det"] = n.pc]
                          /\ mirror' = [mirror EXCEPT !["det"] = n.mirror]
                          /\ trace' = n.ev
                          /\ postWait' = 0
                    /\ UNCHANGED <<probesIssued, probeLog>>
    /\ rawEmotion' = Undefined
    /\ UNCHANGED <<calc, users, backendAvailable, faceApiModelsLoaded, faceapiDefined, currentUser,
                   stressResults, knnCalls, knnResult>>

\* TickSeconds pass while the POST of detectWithBackend is pending: the
\* fetch is given no AbortController signal and no timer is started
Tick ==
    /\ pc["det"] = "d_post"
    /\ postWait < MaxTicks * TickSeconds
    /\ postWait' = postWait + TickSeconds
    /\ UNCHANGED <<calc, users, pc, mirror, backendAvailable, faceApiModelsLoaded, faceapiDefined, rawEmotion,
                   currentUser, stressResults, result, outcome, saved, hadImage, trace,
                   probesIssued, probeLog, detections, knnCalls, knnResult>>

RemoteFailures == {"network_error", "non_2xx", "malformed_body", "success_false"}

\* detectWithBackend from the answer to its POST to the end of the try
\* block of detectStress
BackendRespond(o, body, hour) ==
    /\ pc["det"] = "d_post"
    /\ IF o \in RemoteFailures
       THEN /\ DetGoto(ClientSideEntry(faceApiModelsLoaded), <<"remote:fail">>)
            /\ UNCHANGED <<result, outcome>>
       ELSE IF UserInfoThrows(currentUser)
       THEN /\ DetGoto(ClientSideEntry(faceApiModelsLoaded), <<"remote:ok">>)
            /\ UNCHANGED <<result, outcome>>
       ELSE DetReturn(BackendResult(body, hour), <<"remote:ok">>)
    /\ rawEmotion' = IF o = "success" THEN body.emotion ELSE rawEmotion
    /\ UNCHANGED <<calc, users, backendAvailable, faceApiModelsLoaded, faceapiDefined, currentUser,
                   stressResults, saved, hadImage, probesIssued, probeLog, detections,
                   knnCalls, knnResult>>

\* detectWithFaceApi: a detectAllFaces call settles. o is "throws" (image or
\* detector error), "no_face" or "faces"
FaceApiRespond(o, face, hour) ==
    /\ pc["det"] \in {"c_detect", "c_retry"}
    /\ IF o = "no_face" /\ pc["det"] = "c_detect"
       THEN /\ pc' = [pc EXCEPT !["det"] = "c_retry"]
            /\ UNCHANGED <<mirror, trace, postWait, result, outcome>>
       ELSE IF o = "faces" /\ ~AnalyzeThrows(stressResults)
       THEN DetReturn(processDetections(face, stressResults, hour), <<"landmark:result">>)
       ELSE /\ DetGoto([pc |-> "c_pixel", mirror |-> 0, ev |-> <<"landmark:null", "pixel">>], <<>>)
            /\ UNCHANGED <<result, outcome>>
    /\ UNCHANGED <<calc, users, backendAvailable, faceApiModelsLoaded, faceapiDefined, rawEmotion, currentUser,
                   stressResults, saved, hadImage, probesIssued, probeLog, detections,
                   knnCalls, knnResult>>

\* detectClientSideFallback after its await of analyzeImageData
PixelRespond(image, jitter, u, hour) ==
    /\ pc["det"] = "c_pixel"
    /\ IF AnalyzeThrows(stressResults)
       THEN DetThrow(<<>>)
       ELSE DetReturn(detectClientSideFallback(image, jitter, u, stressResults, hour),
                      <<"pixel:result">>)
    /\ UNCHANGED <<calc, users, backendAvailable, faceApiModelsLoaded, faceapiDefined, rawEmotion, currentUser,
                   stressResults, saved, hadImage, probesIssued, probeLog, detections,
                   knnCalls, knnResult>>

\* saveResult writing a log that holds only its argument
SaveResult_Overwrites ==
    /\ pc["det"] = "ready"
    /\ outcome = "returned"
    /\ ~saved
    /\ Len(stressResults) < MaxHistory
    /\ stressResults' = <<Stored(result)>>
    /\ saved' = TRUE
    /\ UNCHANGED <<calc, users, pc, mirror, backendAvailable, faceApiModelsLoaded, faceapiDefined, rawEmotion,
                   currentUser, result, outcome, hadImage, trace, postWait, probesIssued,
                   probeLog, detections, knnCalls, knnResult>>

\* the page passes the returned result to saveResult(result)
SaveResult ==
    /\ pc["det"] = "ready"
    /\ outcome = "returned"
    /\ ~saved
    /\ Len(stressResults) < MaxHistory
    /\ stressResults' = Append(stressResults, Stored(result))
    /\ saved' = TRUE
    /\ UNCHANGED <<calc, users, pc, mirror, backendAvailable, faceApiModelsLoaded, faceapiDefined, rawEmotion,
                   currentUser, result, outcome, hadImage, trace, postWait, probesIssued,
                   probeLog, detections, knnCalls, knnResult>>

\* ------------------------------------------------------------ getKNNResults
GetKNNResults ==
    /\ pc["knn"] = "ready"
    /\ pc["init"] # "ready"
    /\ knnCalls < MaxKnn
    /\ knnCalls' = knnCalls + 1
    /\ IF backendAvailable = "null"
       THEN /\ pc' = [pc EXCEPT !["knn"] = "h_fetch"]
            /\ probesIssued' = probesIssued + 1
            /\ knnResult' = "none"
            /\ UNCHANGED probeLog
       ELSE /\ pc' = [pc EXCEPT !["knn"] = IF backendAvailable = "true" THEN "k_get" ELSE "ready"]
            /\ knnResult' = IF backendAvailable = "true" THEN "none" ELSE "stub"
            /\ UNCHANGED <<probesIssued, probeLog>>
    /\ UNCHANGED <<calc, users, mirror, backendAvailable, faceApiModelsLoaded, faceapiDefined, rawEmotion, currentUser,
                   stressResults, result, outcome, saved, hadImage, trace, postWait,
                   detections>>

KnnOutcomes == {"network_error", "non_2xx", "malformed_body", "ok"}

\* getKNNResults returning whatever the GET produced
KnnRespond_AlwaysPayload(o) ==
    /\ pc["knn"] = "k_get"
    /\ pc' = [pc EXCEPT !["knn"] = "ready"]
    /\ knnResult' = "payload"
    /\ UNCHANGED <<calc, users, mirror, backendAvailable, faceApiModelsLoaded, faceapiDefined, rawEmotion, currentUser,
                   stressResults, result, outcome, saved, hadImage, trace, postWait,
                   probesIssued, probeLog, detections, knnCalls>>

\* the GET of getKNNResults settles
KnnRespond(o) ==
    /\ pc["knn"] = "k_get"
    /\ pc' = [pc EXCEPT !["knn"] = "ready"]
    /\ knnResult' = IF o = "ok" THEN "payload" ELSE "stub"
    /\ UNCHANGED <<calc, users, mirror, backendAvailable, faceApiModelsLoaded, faceapiDefined, rawEmotion, currentUser,
                   stressResults, result, outcome, saved, hadImage, trace, postWait,
                   probesIssued, probeLog, detections, knnCalls>>

Next ==
    \/ ScriptInit
    \/ \E t \in Threads, o \in HealthOutcomes : HealthRespond(t, o)
    \/ \E t \in Threads, ok \in BOOLEAN : MirrorRespond(t, ok)
    \/ \E img \in BOOLEAN, hour \in Hours : DetectStress(img, hour)
    \/ Tick
    \/ \E o \in RemoteFailures \cup {"success"}, body \in RemoteBodies, hour \in Hours :
          BackendRespond(o, body, hour)
    \/ \E o \in {"throws", "no_face", "faces"}, face \in Faces, hour \in Hours :
          FaceApiRespond(o, face, hour)
    \/ \E image \in Images, jitter \in Jitters, u \in Randoms, hour \in Hours :
          PixelRespond(image, jitter, u, hour)
    \/ SaveResult
    \/ GetKNNResults
    \/ \E o \in KnnOutcomes : KnnRespond(o)

Spec == Init /\ [][Next]_vars

\* localStorage is shared with every other script of the origin and with
\* the user: the store may hold a currentUser item that is the JSON text
\* null or no item at all, and a result log with a null entry
InitExt ==
    /\ InitCommon
    /\ currentUser \in {UserEmail, "absent", "null"}
    /\ stressResults \in {<<>>, <<NullEntry>>}
    /\ calc = NoCall

SpecExt == InitExt /\ [][Next]_vars

\* ------------------------------------------------- the readers of the log
\* The page calls getResultsHistory(), getUserStats() or
\* analyzeStressTrends(): synchronous reads of localStorage; calc holds
\* what the last of them returned.
ReadReturned(fn, y) == [done |-> TRUE, fn |-> fn, out |-> y]

GetResultsHistory ==
    /\ calc' = ReadReturned("getResultsHistory", getResultsHistory(stressResults))
    /\ UNCHANGED progVars

GetUserStats ==
    /\ calc' = ReadReturned("getUserStats", getUserStats(stressResults, currentUser))
    /\ UNCHANGED progVars

AnalyzeStressTrends ==
    /\ calc' = IF AnalyzeThrows(stressResults)
               THEN ReadReturned("analyzeStressTrends", "threw")
               ELSE ReadReturned("analyzeStressTrends", analyzeStressTrends(stressResults))
    /\ UNCHANGED progVars

\* detectStress, saveResult and the readers, with one outcome of each kind
\* for the requests (no getKNNResults call, no waiting on the POST)
NextLog ==
    \/ ScriptInit
    \/ \E t \in Threads, o \in {"healthy", "network_error"} : HealthRespond(t, o)
    \/ \E t \in Threads, ok \in BOOLEAN : MirrorRespond(t, ok)
    \/ \E img \in BOOLEAN, hour \in Hours : DetectStress(img, hour)
    \/ \E o \in {"non_2xx", "success"}, body \in RemoteBodies, hour \in Hours :
          BackendRespond(o, body, hour)
    \/ \E o \in {"no_face", "faces"}, face \in Faces, hour \in Hours :
          FaceApiRespond(o, face, hour)
    \/ \E image \in Images, jitter \in Jitters, u \in Randoms, hour \in Hours :
          PixelRespond(image, jitter, u, hour)
    \/ SaveResult
    \/ GetResultsHistory
    \/ GetUserStats
    \/ AnalyzeStressTrends

SpecLog == Init /\ [][NextLog]_vars

\* ------------------------------------------- functions applied on their own
\* The specifications below apply one function of the module to an input
\* drawn from a bounded set, while the page is at rest.
AtRest ==
    /\ InitCommon
    /\ faceapiDefined
    /\ currentUser = UserEmail
    /\ stressResults = <<>>

\* calc before the function is applied to input x
Pending(x) == [done |-> FALSE, in |-> x, out |-> Undefined]

\* the function has returned y
Returned(y) == [calc EXCEPT !.done = TRUE, !.out = y]

\* --- detectWithBackend on a response body with success: true
\* bodies with each optional field absent, present, and (for the numbers)
\* present with the value 0
ResponseBodies ==
    {[emotion |-> "Happy", stressLevel |-> s, eyeStrain |-> e, browTension |-> b,
      facialFatigue |-> f,
      hasConfidence |-> c[1], confidence |-> c[2],
      hasFacesCount |-> n[1], facesCount |-> n[2],
      hasAllFaces |-> a[1], allFaces |-> a[2],
      combinedStressLevel |-> k] :
        s \in {"Low", "High"}, e \in {Undefined, "Mild"}, b \in {Undefined, "Severe"},
        f \in {Undefined, "High"},
        c \in {<<FALSE, 0>>, <<TRUE, 0>>, <<TRUE, 64>>},
        n \in {<<FALSE, 0>>, <<TRUE, 0>>, <<TRUE, 2>>},
        a \in {<<FALSE, <<>> >>, <<TRUE, <<>> >>,
                <<TRUE, <<[emotion |-> "Happy", stressLevel |-> "Low"]>> >>},
        k \in {Undefined, "High"}}

InitDetectWithBackend == AtRest /\ calc \in {Pending(b) : b \in ResponseBodies}

ApplyDetectWithBackend ==
    /\ ~calc.done
    /\ calc' = Returned(BackendResult(calc.in, 9))
    /\ UNCHANGED progVars

SpecDetectWithBackend == InitDetectWithBackend /\ [][ApplyDetectWithBackend]_vars

\* --- each analyzer on an input of its own
\* calc of an analyzer call: kind is "remote", "landmark" or "pixel"
PendingAnalyzer(kind, x) == [done |-> FALSE, kind |-> kind, in |-> x, out |-> Undefined]

\* success bodies whose stressLevel the service chose on its own
AnalyzerBodies ==
    {Body(e, s, Undefined, FALSE, 0) : e \in {"Happy", "Sad", "Surprise"}, s \in StressLevels}

\* rounded expression percentages of a detected face: one clear emotion of
\* each base level, near ties, all zero, and a single certain emotion
AnalyzerExpressions ==
    {<<70, 10, 5, 5, 4, 3, 3>>, <<5, 80, 3, 3, 3, 3, 3>>, <<10, 5, 5, 5, 5, 5, 65>>,
     <<40, 5, 10, 40, 2, 2, 1>>, <<35, 5, 30, 20, 4, 3, 3>>, <<30, 30, 10, 10, 10, 5, 5>>,
     <<0, 0, 0, 0, 0, 0, 0>>, <<0, 0, 0, 100, 0, 0, 0>>, <<100, 0, 0, 0, 0, 0, 0>>,
     <<8, 2, 90, 0, 0, 0, 0>>}

\* landmark geometries from relaxed to tense, one with coinciding eye
\* landmarks and one whose landmark reads throw
AnalyzerGeometries ==
    {Geometry(e, b, d, FALSE) : e \in {NaN, 100, 150, 225, 300, 350},
                                b \in {-15, -9, 0, 6, 15},
                                d \in {0, 250, 500, 750, 1000}}
    \cup {Geometry(350, 15, 0, TRUE)}

AnalyzerFaces == {Face(x, g) : x \in AnalyzerExpressions, g \in AnalyzerGeometries}

\* images of each branch of the pixel heuristic
AnalyzerImages ==
    {Image(r, g, b, c, TRUE) : r \in {60, 130, 200}, g \in {60, 150}, b \in {60, 150},
                               c \in {20, 80}}
    \cup {Image(0, 0, 0, 0, FALSE)}

\* jitter draws at the ends and the middle of the interval
AnalyzerJitters ==
    {<<-50, 49, -50, 49, -50, 49, -50>>, <<49, -50, 49, -50, 49, -50, 49>>,
     <<0, 0, 0, 0, 0, 0, 0>>}

AnalyzerRandoms == {<<999, 0, 500, 999>>, <<0, 999, 999, 0>>}

InitAnalyzers ==
    /\ AtRest
    /\ \/ calc \in {PendingAnalyzer("remote", b) : b \in AnalyzerBodies}
       \/ calc \in {PendingAnalyzer("landmark", f) : f \in AnalyzerFaces}
       \/ calc \in {PendingAnalyzer("pixel", <<i, j, u>>) :
                        i \in AnalyzerImages, j \in AnalyzerJitters, u \in AnalyzerRandoms}

AnalyzeRemote ==
    /\ ~calc.done /\ calc.kind = "remote"
    /\ calc' = Returned(BackendResult(calc.in, 9))
    /\ UNCHANGED progVars

AnalyzeLandmarks ==
    /\ ~calc.done /\ calc.kind = "landmark"
    /\ calc' = Returned(processDetections(calc.in, stressResults, 9))
    /\ UNCHANGED progVars

AnalyzePixels ==
    /\ ~calc.done /\ calc.kind = "pixel"
    /\ calc' = Returned(detectClientSideFallback(calc.in[1], calc.in[2], calc.in[3],
                                                 stressResults, 9))
    /\ UNCHANGED progVars

NextAnalyzers == AnalyzeRemote \/ AnalyzeLandmarks \/ AnalyzePixels

SpecAnalyzers == InitAnalyzers /\ [][NextAnalyzers]_vars

\* --- calculateReliefUrgency on every stress level, emotion and feature level
UrgencyInputs ==
    [stressLevel : StressLevels, emotion : CanonicalEmotions \cup {"Contempt"},
     eyeStrain : FeatureLevelSet, browTension : FeatureLevelSet, facialFatigue : FeatureLevelSet]

InitReliefUrgency == AtRest /\ calc \in {Pending(x) : x \in UrgencyInputs}

ApplyReliefUrgency ==
    /\ ~calc.done
    /\ calc' = Returned(calculateReliefUrgency(calc.in.stressLevel, calc.in.emotion,
                                               calc.in.eyeStrain, calc.in.browTension,
                                               calc.in.facialFatigue))
    /\ UNCHANGED progVars

SpecReliefUrgency == InitReliefUrgency /\ [][ApplyReliefUrgency]_vars

\* --- analyzeStressTrends on a stored history
\* longest history of the exhaustive part of Histories
MaxLogLen == 3

\* entries of every level (and one without a usable stressLevel), inside
\* and outside the 7-day window, at two hours of day
HistoryEntries ==
    {LogEntry(l, w[1], w[2]) : l \in StressLevels \cup {Undefined},
                               w \in {<<1, 9>>, <<2, 9>>, <<2, 14>>, <<9, 9>>}}

RECURSIVE SeqsUpTo(_, _)
SeqsUpTo(S, n) ==
    IF n = 0 THEN {<<>>}
    ELSE LET shorter == SeqsUpTo(S, n - 1)
         IN shorter \cup {Append(s, e) : s \in {x \in shorter : Len(x) = n - 1}, e \in S}

\* longer histories: three High scans at 9 h and three Low scans at 14 h in
\* two storage orders, and High scans at four hours of day
SyntheticHistories ==
    {<<LogEntry("High", 3, 9), LogEntry("High", 2, 9), LogEntry("High", 1, 9),
       LogEntry("Low", 3, 14), LogEntry("Low", 2, 14), LogEntry("Low", 1, 14)>>,
     <<LogEntry("Low", 6, 14), LogEntry("High", 5, 9), LogEntry("Low", 4, 14),
       LogEntry("High", 3, 9), LogEntry("Low", 2, 14), LogEntry("High", 1, 9)>>,
     <<LogEntry("High", 5, 20), LogEntry("High", 4, 14), LogEntry("High", 3, 9),
       LogEntry("High", 2, 3), LogEntry("High", 1, 14)>>}

Histories == SeqsUpTo(HistoryEntries, MaxLogLen) \cup SyntheticHistories

InitTrends == AtRest /\ calc \in {Pending(h) : h \in Histories}

ApplyStressTrends ==
    /\ ~calc.done
    /\ calc' = Returned(analyzeStressTrends(calc.in))
    /\ UNCHANGED progVars

SpecTrends == InitTrends /\ [][ApplyStressTrends]_vars

\* --- detectEmotionClientSide on the features of an image and a jitter draw
\* one image for each emotionScores table, and one that does not decode
EmotionImages ==
    {Image(200, 150, 150, 40, TRUE), Image(60, 60, 60, 20, TRUE),
     Image(120, 120, 120, 80, TRUE), Image(120, 120, 120, 20, TRUE),
     Image(0, 0, 0, 0, FALSE)}

\* (Math.random() - 0.5) * 0.1 in thousandths: both ends and the middle of
\* the interval, independently for each of the seven categories
JitterSteps == {-50, 0, 49}

EmotionJitters == [1..7 -> JitterSteps]

InitPixelEmotion ==
    AtRest /\ calc \in {Pending(<<i, j>>) : i \in EmotionImages, j \in EmotionJitters}

ApplyDetectEmotionClientSide ==
    /\ ~calc.done
    /\ calc' = Returned(detectEmotionClientSide(analyzeImageData(calc.in[1]), calc.in[2]))
    /\ UNCHANGED progVars

SpecPixelEmotion == InitPixelEmotion /\ [][ApplyDetectEmotionClientSide]_vars

\* ------------------------------------------- registration, login, logout
\* what the visitor types into the email field
RawEmails ==
    {"asha@example.com", " Asha@Example.com ", "bo@example.com", "BO@example.com",
     "asha.example.com"}

\* String.prototype.trim on the strings above
Trim(s) == IF s = " Asha@Example.com " THEN "Asha@Example.com" ELSE s

\* String.prototype.toLowerCase on the strings above and their trimmed forms
ToLowerCase(s) ==
    CASE s = "Asha@Example.com" -> "asha@example.com"
      [] s = " Asha@Example.com " -> " asha@example.com "
      [] s = "BO@example.com" -> "bo@example.com"
      [] OTHER -> s

\* /^[^\s@]+@[^\s@]+\.[^\s@]+$/.test(email)
validateEmail(email) ==
    email \in {"asha@example.com", "Asha@Example.com", "bo@example.com", "BO@example.com"}

Mobiles == {"9876543210", "98765-4321"}

\* phone.replace(/\D/g, '').length >= 10
validatePhone(phone) ==
    LET cleaned == IF phone = "98765-4321" THEN "987654321" ELSE phone
    IN Len(cleaned) >= 10

FullNames == {UserName, "A"}

Passwords == {"secret1", "hunter22", "short"}

\* the checks of the registration handler that a form fails
FailedChecks(form) ==
    {c \in {"name", "email", "mobile", "password", "confirm", "terms"} :
        \/ c = "name" /\ Len(form.fullName) < 2
        \/ c = "email" /\ ~validateEmail(ToLowerCase(Trim(form.email)))
        \/ c = "mobile" /\ ~validatePhone(form.mobile)
        \/ c = "password" /\ Len(form.password) < 6
        \/ c = "confirm" /\ form.password # form.confirmPassword
        \/ c = "terms" /\ ~form.termsCheckbox}

\* the forms that pass every check or fail exactly one
RegisterForms ==
    {form \in [fullName : FullNames, email : RawEmails, mobile : Mobiles, password : Passwords,
               confirmPassword : Passwords, termsCheckbox : BOOLEAN] :
        Cardinality(FailedChecks(form)) <= 1}

LoginForms == [email : RawEmails, password : {"secret1", "hunter22", ""}]

\* a handler has run on the form in and ended as out says
AuthCall(fn, in, out) == [done |-> TRUE, fn |-> fn, in |-> in, out |-> out]

\* what neither the handlers of the forms nor logout touch
detectionVars ==
    <<pc, mirror, backendAvailable, faceApiModelsLoaded, faceapiDefined, stressResults, result,
      outcome, saved, hadImage, trace, rawEmotion, postWait, probesIssued, probeLog,
      detections, knnCalls, knnResult>>

\* users.some(u => u.email === email)
EmailTaken(email) == \E i \in 1..Len(users) : users[i].email = email

\* the record that the registration handler appends (its id and
\* registeredAt, two readings of the clock, are read by no handler here)
NewUser(form, email) ==
    [name |-> form.fullName, email |-> email, mobile |-> form.mobile,
     password |-> form.password, status |-> "pending"]

\* the submit handler of registerForm that stores the address as typed
Register_AsTyped(form) ==
    LET email == Trim(form.email)
        isValid == /\ Len(form.fullName) >= 2
                   /\ validateEmail(email)
                   /\ validatePhone(form.mobile)
                   /\ Len(form.password) >= 6
                   /\ form.password = form.confirmPassword
                   /\ form.termsCheckbox
    IN /\ IF ~isValid
          THEN /\ calc' = AuthCall("register", form, "invalid")
               /\ UNCHANGED users
          ELSE IF EmailTaken(email)
          THEN /\ calc' = AuthCall("register", form, "duplicate")
               /\ UNCHANGED users
          ELSE /\ calc' = AuthCall("register", form, "registered")
               /\ users' = Append(users, NewUser(form, email))
       /\ UNCHANGED <<currentUser, detectionVars>>

\* the submit handler of registerForm
Register(form) ==
    LET email == ToLowerCase(Trim(form.email))
        isValid == /\ Len(form.fullName) >= 2
                   /\ validateEmail(email)
                   /\ validatePhone(form.mobile)
                   /\ Len(form.password) >= 6
                   /\ form.password = form.confirmPassword
                   /\ form.termsCheckbox
    IN /\ IF ~isValid
          THEN /\ calc' = AuthCall("register", form, "invalid")
               /\ UNCHANGED users
          ELSE IF EmailTaken(email)
          THEN /\ calc' = AuthCall("register", form, "duplicate")
               /\ UNCHANGED users
          ELSE /\ calc' = AuthCall("register", form, "registered")
               /\ users' = Append(users, NewUser(form, email))
       /\ UNCHANGED <<currentUser, detectionVars>>

\* users.find(u => u.email === email && u.password === password): the index
\* of the first such record, 0 when there is none
FindUser(email, password) ==
    LET hits == {i \in 1..Len(users) : users[i].email = email /\ users[i].password = password}
    IN IF hits = {} THEN 0 ELSE CHOOSE i \in hits : \A j \in hits : i <= j

\* the submit handler of loginForm without the test of user.status
Login_AnyStatus(form) ==
    LET email == ToLowerCase(Trim(form.email))
        isValid == validateEmail(email) /\ form.password # ""
        user == FindUser(email, form.password)
    IN /\ IF ~isValid
          THEN /\ calc' = AuthCall("login", form, "invalid")
               /\ UNCHANGED currentUser
          ELSE IF user = 0
          THEN /\ calc' = AuthCall("login", form, "no_match")
               /\ UNCHANGED currentUser
          ELSE /\ calc' = AuthCall("login", form, "logged_in")
               /\ currentUser' = users[user].email
       /\ UNCHANGED <<users, detectionVars>>

\* the submit handler of loginForm
Login(form) ==
    LET email == ToLowerCase(Trim(form.email))
        isValid == validateEmail(email) /\ form.password # ""
        user == FindUser(email, form.password)
    IN /\ IF ~isValid
          THEN /\ calc' = AuthCall("login", form, "invalid")
               /\ UNCHANGED currentUser
          ELSE IF user = 0
          THEN /\ calc' = AuthCall("login", form, "no_match")
               /\ UNCHANGED currentUser
          ELSE IF users[user].status # "active"
          THEN /\ calc' = AuthCall("login", form, "pending")
               /\ UNCHANGED currentUser
          ELSE /\ calc' = AuthCall("login", form, "logged_in")
               /\ currentUser' = users[user].email
       /\ UNCHANGED <<users, detectionVars>>

\* logout(): localStorage.removeItem('currentUser')
Logout ==
    /\ currentUser' = "absent"
    /\ calc' = AuthCall("logout", Undefined, "logged_out")
    /\ UNCHANGED <<users, detectionVars>>

\* the administrator activates or deactivates the account at index i
SetUserStatus(i, status) ==
    /\ i \in 1..Len(users)
    /\ users[i].status # status
    /\ users' = [users EXCEPT ![i].status = status]
    /\ calc' = AuthCall("admin", i, status)
    /\ UNCHANGED <<currentUser, detectionVars>>

\* nobody is logged in and nobody has registered
InitAuth ==
    /\ InitCommon
    /\ faceapiDefined
    /\ currentUser = "absent"
    /\ stressResults = <<>>
    /\ calc = NoCall

NextAuth ==
    \/ \E form \in RegisterForms : Register(form)
    \/ \E form \in LoginForms : Login(form)
    \/ Logout
    \/ \E i \in 1..Len(users), status \in {"active", "pending"} : SetUserStatus(i, status)

SpecAuth == InitAuth /\ [][NextAuth]_vars

\* =============================================================== properties
\* the last detectStress() call has done ev
Has(ev) == \E i \in 1..Len(trace) : trace[i] = ev

\* the analyzer stage an entry of trace belongs to
Stage(ev) ==
    CASE ev \in {"flag:true", "flag:false", "flag:null"} -> 0
      [] ev \in {"remote", "remote:ok", "remote:fail"} -> 1
      [] ev \in {"landmark", "landmark:unusable", "landmark:null", "landmark:result"} -> 2
      [] OTHER -> 3

\* C1: when detectStress() has ended after a failed remote call, it has
\* returned a result of a client-side analyzer (detectionMethod is not the
\* CNN tag) and has not thrown, whatever the currentUser item and the
\* result log of the store contain.
C1_RemoteFailureFallsBack ==
    (outcome # "none" /\ hadImage /\ Has("remote:fail")) =>
        /\ outcome = "returned"
        /\ result.detectionMethod \in {MethodFaceApi, MethodFallback}

\* C2: every result detectStress() returns has emotion among the seven
\* canonical names, stressLevel among Low/Medium/High and eyeStrain,
\* browTension and facialFatigue among the five feature levels.
C2_FieldsPopulated ==
    outcome = "returned" =>
        /\ result.emotion \in CanonicalEmotions
        /\ result.stressLevel \in StressLevels
        /\ result.eyeStrain \in FeatureLevelSet
        /\ result.browTension \in FeatureLevelSet
        /\ result.facialFatigue \in FeatureLevelSet

\* C3: every result detectStress() returns for a supplied image carries
\* reliefUrgency in 1..10, stressTrends, userName and userEmail.
C3_SharedEnrichment ==
    (outcome = "returned" /\ hadImage) =>
        /\ result.hasReliefUrgency
        /\ result.reliefUrgency \in 1..10
        /\ result.hasStressTrends
        /\ result.hasUser

\* C4: the POST of the remote inference call is awaited for at most
\* API_CONFIG.timeout (10 s); after that detectStress() has left the remote
\* call for the fallback chain.
C4_RemoteCallBounded ==
    pc["det"] = "d_post" => postWait <= TimeoutSeconds

\* C5: once the script has run, exactly one request has been sent to
\* /api/health/, however detectStress() and getKNNResults() calls interleave
\* with the initial probe.
C5_ProbeIssuedOnce ==
    pc["init"] # "ready" => probesIssued = 1

\* C6: a checkBackendHealth() call that completed with any outcome other
\* than HTTP 200 with status 'healthy' left backendAvailable false and has
\* called loadFaceApiModels().
C6_FailedProbeResolvesFalse ==
    probeLog.outcome \notin {"none", "healthy"} =>
        /\ probeLog.flagAfter = "false"
        /\ probeLog.loadTriggered

\* C7: once backendAvailable is true or false it never changes again and
\* no further request is sent to /api/health/.
C7_FlagResolvedOnce ==
    [][backendAvailable # "null" =>
          /\ backendAvailable' = backendAvailable
          /\ probesIssued' = probesIssued]_vars

\* C8: in every detectStress() run with an image the analyzers are tried in
\* the order remote, landmark, pixel heuristic; the POST is sent only if
\* backendAvailable was true at the dispatch; detectWithFaceApi is invoked
\* only if the POST was not sent or failed; detectClientSideFallback is
\* invoked if and only if the landmark analyzer was unusable or returned
\* null; a landmark result is returned without the pixel heuristic.
C8_AnalyzerOrder ==
    /\ \A i, j \in 1..Len(trace) : i < j => Stage(trace[i]) <= Stage(trace[j])
    /\ Has("remote") => Has("flag:true")
    /\ pc["det"] = "d_post" => Has("remote")
    /\ Has("landmark") => (~Has("remote") \/ Has("remote:fail"))
    /\ pc["det"] \in {"c_detect", "c_retry"} => Has("landmark")
    /\ Has("landmark:unusable") => ~Has("landmark")
    /\ Has("pixel") <=> (Has("landmark:unusable") \/ Has("landmark:null"))
    /\ pc["det"] = "c_pixel" => Has("pixel")
    /\ Has("pixel:result") => Has("pixel")
    /\ Has("landmark:result") =>
          /\ ~Has("pixel")
          /\ outcome = "returned"
          /\ result.detectionMethod = MethodFaceApi

\* a run in which the POST failed, face-api.js found no face and the pixel
\* heuristic produced the result
C8_Witness ==
    /\ outcome = "returned"
    /\ Has("remote:fail")
    /\ Has("landmark:null")
    /\ Has("pixel:result")

\* C9: the detectionMethod of a returned result is the CNN tag iff the
\* POST of this call returned a success response, the landmark tag iff
\* processDetections produced the result, the pixel-heuristic tag iff
\* detectClientSideFallback did, and 'Default' iff no image was supplied.
C9_ProvenanceTag ==
    outcome = "returned" =>
        /\ result.detectionMethod \in {MethodCNN, MethodFaceApi, MethodFallback, MethodDefault}
        /\ result.detectionMethod = MethodCNN <=> Has("remote:ok")
        /\ result.detectionMethod = MethodFaceApi <=> Has("landmark:result")
        /\ result.detectionMethod = MethodFallback <=> Has("pixel:result")
        /\ result.detectionMethod = MethodDefault <=> ~hadImage

\* a landmark result returned after the POST of the same call failed
C9_Witness ==
    /\ outcome = "returned"
    /\ Has("remote:fail")
    /\ result.detectionMethod = MethodFaceApi

\* C10: the emotion of a CNN result is the canonical form of the response's
\* emotion when that is one of the ten aliases, is the response's emotion
\* unchanged for every other string, and normalizing it again changes nothing.
C10_AliasNormalization ==
    (outcome = "returned" /\ Has("remote:ok")) =>
        /\ rawEmotion \in AliasKeys => result.emotion = EMOTION_ALIASES[rawEmotion]
        /\ rawEmotion \notin AliasKeys => result.emotion = rawEmotion
        /\ NormalizeEmotion(result.emotion) = result.emotion

\* C11: for a success response, every optional field that is present
\* (eyeStrain, browTension, facialFatigue, confidence, facesCount, allFaces,
\* combinedStressLevel) is returned unchanged, and an absent one gets its
\* default: 'Normal', 85, facesCount 1, no faces, combinedStressLevel = stressLevel.
C11_OptionalFields ==
    calc.done =>
        LET b == calc.in
            r == calc.out
        IN /\ r.eyeStrain = (IF b.eyeStrain = Undefined THEN "Normal" ELSE b.eyeStrain)
           /\ r.browTension = (IF b.browTension = Undefined THEN "Normal" ELSE b.browTension)
           /\ r.facialFatigue = (IF b.facialFatigue = Undefined THEN "Normal" ELSE b.facialFatigue)
           /\ r.confidence = (IF b.hasConfidence THEN b.confidence ELSE 85)
           /\ r.facesCount = (IF b.hasFacesCount THEN b.facesCount ELSE 1)
           /\ r.allFaces = (IF b.hasAllFaces THEN b.allFaces ELSE <<>>)
           /\ r.combinedStressLevel = (IF b.combinedStressLevel = Undefined THEN b.stressLevel
                                       ELSE b.combinedStressLevel)

\* C12: the stressLevel of every result an analyzer returns is the
\* emotion-to-stress lookup of the result's emotion, or, on the landmark
\* path only, one notch above it, and then only with overallStressScore
\* above 0.7 for a Low base or above 0.8 for a Medium base.
C12_StressLevelFromEmotion ==
    calc.done =>
        LET r == calc.out
            base == calculateStressLevel(r.emotion)
        IN \/ r.stressLevel = base
           \/ /\ calc.kind = "landmark"
              /\ LET overall6 == analyzeFacialLandmarks(calc.in.geometry).overall6
                 IN \/ base = "Low" /\ overall6 > 700000 /\ r.stressLevel = "Medium"
                    \/ base = "Medium" /\ overall6 > 800000 /\ r.stressLevel = "High"

\* the landmark and pixel analyzers alone satisfy C12
C12_ClientSideOnly == calc.kind # "remote" => C12_StressLevelFromEmotion

\* an escalated landmark result, from each base level
C12_EscalatedLow ==
    calc.done /\ calc.kind = "landmark" /\ calc.out.stressLevel = "Medium"
    /\ calculateStressLevel(calc.out.emotion) = "Low"

C12_EscalatedMedium ==
    calc.done /\ calc.kind = "landmark" /\ calc.out.stressLevel = "High"
    /\ calculateStressLevel(calc.out.emotion) = "Medium"

\* Low, Medium, High as 1, 2, 3
LevelRank(l) == CASE l = "Low" -> 1 [] l = "Medium" -> 2 [] l = "High" -> 3

\* C13: calculateReliefUrgency returns an integer in 1..10, and with the
\* emotion and the three feature levels fixed the value for a higher
\* stress level is never smaller.
C13_UrgencyRangeMonotone ==
    calc.done =>
        /\ calc.out \in 1..10
        /\ \A s \in StressLevels :
              LevelRank(s) >= LevelRank(calc.in.stressLevel) =>
                  calculateReliefUrgency(s, calc.in.emotion, calc.in.eyeStrain,
                                         calc.in.browTension, calc.in.facialFatigue) >= calc.out

\* the upper clamp acts for High while the Low value of the same inputs is smaller
C13_Witness ==
    /\ calc.done /\ calc.in.stressLevel = "Low" /\ calc.out < 10
    /\ calc.in.emotion = "Angry" /\ calc.in.eyeStrain = "Severe"
    /\ calc.in.browTension = "Severe" /\ calc.in.facialFatigue = "Severe"
    /\ calculateReliefUrgency("High", calc.in.emotion, calc.in.eyeStrain,
                              calc.in.browTension, calc.in.facialFatigue) = 10

\* C14: on a history that is empty or whose entries are all older than 7
\* days, analyzeStressTrends returns trend 'insufficient_data', avgStress
\* null and no peak times.
C14_InsufficientData ==
    (calc.done /\ \A i \in 1..Len(calc.in) : calc.in[i].age > 7) =>
        /\ calc.out.trend = "insufficient_data"
        /\ calc.out.avgStress = "null"
        /\ calc.out.peakTimes = <<>>

\* a history that has entries, all of them stale
C14_Witness ==
    /\ calc.done /\ Len(calc.in) = 2
    /\ \A i \in 1..Len(calc.in) : calc.in[i].age > 7
    /\ calc.out.trend = "insufficient_data"

\* e placed into a sequence that is ordered oldest first, behind the
\* entries that are not newer than e
InsertByTime(sorted, e) ==
    LET k == Cardinality({i \in 1..Len(sorted) : sorted[i].age >= e.age})
    IN SubSeq(sorted, 1, k) \o <<e>> \o SubSeq(sorted, k + 1, Len(sorted))

\* rs in timestamp order, oldest first
RECURSIVE InTimeOrder(_)
InTimeOrder(rs) ==
    IF rs = <<>> THEN <<>>
    ELSE InsertByTime(InTimeOrder(SubSeq(rs, 1, Len(rs) - 1)), rs[Len(rs)])

\* the documented classification of a window w of two or more entries
TrendOfHalves(w) ==
    LET n1 == Len(w) \div 2
        n2 == Len(w) - n1
        s1 == StressSum(SubSeq(w, 1, n1))
        s2 == StressSum(SubSeq(w, n1 + 1, Len(w)))
    IN IF 10 * s2 * n1 < 10 * s1 * n2 - 3 * n1 * n2 THEN "improving"
       ELSE IF 10 * s2 * n1 > 10 * s1 * n2 + 3 * n1 * n2 THEN "worsening"
       ELSE "stable"

\* a window of two or more entries, each with a stress level of the vocabulary
Classifiable(w) == Len(w) >= 2 /\ \A i \in 1..Len(w) : w[i].stressLevel \in StressLevels

\* C15: the trend is the comparison of the second-half average with the
\* first-half average (floor(n/2) entries) of the 7-day window taken in
\* timestamp order, whatever the storage order of the history.
C15_TrendInTimeOrder ==
    (calc.done /\ Classifiable(Last7Days(calc.in))) =>
        calc.out.trend = TrendOfHalves(InTimeOrder(Last7Days(calc.in)))

\* C15 for the histories that are stored in timestamp order
C15_WhenStoredInTimeOrder ==
    (calc.done /\ Classifiable(Last7Days(calc.in))
               /\ InTimeOrder(Last7Days(calc.in)) = Last7Days(calc.in)) =>
        calc.out.trend = TrendOfHalves(Last7Days(calc.in))

\* position in w of the first High entry at hour h
FirstHigh(w, h) ==
    CHOOSE i \in 1..Len(w) :
        /\ w[i].stressLevel = "High" /\ w[i].hour = h
        /\ \A j \in 1..(i - 1) : ~(w[j].stressLevel = "High" /\ w[j].hour = h)

\* the hours with a High entry in w by descending count, equal counts in
\* the order of their first High entry, cut off at three
PeaksFirstEncountered(w) ==
    LET H == {h \in 0..23 : HourCount(w, h) > 0}
        before(g, h) == \/ HourCount(w, g) > HourCount(w, h)
                        \/ HourCount(w, g) = HourCount(w, h) /\ FirstHigh(w, g) < FirstHigh(w, h)
        rank(h) == Cardinality({g \in H : before(g, h)})
    IN [i \in 1..Min(3, Cardinality(H)) |-> CHOOSE h \in H : rank(h) = i - 1]

\* C16: peakTimes holds at most 3 hours, each with a High entry in the
\* 7-day window, by descending count of High entries, equal counts ordered
\* and cut off by first occurrence in the history.
C16_PeakTimes ==
    (calc.done /\ Last7Days(calc.in) # <<>>) =>
        calc.out.peakTimes = PeaksFirstEncountered(Last7Days(calc.in))

\* C16 without the order among equal counts: at most three distinct hours
\* that have High entries, counts never increasing, no left-out hour with
\* a higher count than a listed one
C16_UpToTies ==
    (calc.done /\ Last7Days(calc.in) # <<>>) =>
        LET w == Last7Days(calc.in)
            pk == calc.out.peakTimes
        IN /\ Len(pk) = Min(3, Cardinality({h \in 0..23 : HourCount(w, h) > 0}))
           /\ \A i \in 1..Len(pk) : HourCount(w, pk[i]) > 0
           /\ \A i, j \in 1..Len(pk) :
                 i < j => pk[i] # pk[j] /\ HourCount(w, pk[i]) >= HourCount(w, pk[j])
           /\ \A h \in 0..23, i \in 1..Len(pk) :
                 (\A j \in 1..Len(pk) : pk[j] # h) => HourCount(w, h) <= HourCount(w, pk[i])

\* the history with three High scans at 9 h and three Low scans at 14 h
C16_SyntheticCase ==
    (calc.done /\ Len(calc.in) = 6) => calc.out.peakTimes = <<9>>

\* C17: every StressTrend that analyzeStressTrends returns has the five
\* documented fields: trend, avgStress (a level or null), peakTimes (hours
\* of day), totalScansThisWeek (the number of entries in the 7-day window)
\* and an integer improvementRate.
C17_TrendShape ==
    calc.done =>
        /\ calc.out.trend \in {"improving", "worsening", "stable", "insufficient_data"}
        /\ calc.out.avgStress \in StressLevels \cup {"null"}
        /\ \A i \in 1..Len(calc.out.peakTimes) : calc.out.peakTimes[i] \in 0..23
        /\ calc.out.hasTotal
        /\ calc.out.totalScansThisWeek = Len(Last7Days(calc.in))
        /\ ~calc.out.rateIsNaN
        /\ calc.out.improvementRate \in Int

\* C17 for the histories with an entry in the window, every one of them
\* with a stress level of the vocabulary
C17_ValidNonEmptyWindow ==
    LET w == Last7Days(calc.in)
    IN (w # <<>> /\ \A i \in 1..Len(w) : w[i].stressLevel \in StressLevels) => C17_TrendShape

\* C18: when a detectStress() invocation has returned, the result it
\* returned has been appended to the persisted result log.
C18_ResultLoggedOnReturn ==
    (pc["det"] = "ready" /\ outcome = "returned") =>
        /\ stressResults # <<>>
        /\ stressResults[Len(stressResults)].stressLevel = result.stressLevel
        /\ stressResults[Len(stressResults)].hour = result.hour

\* C18 from the moment the page has passed the result to saveResult
C18_LoggedOnceSaved ==
    (pc["det"] = "ready" /\ outcome = "returned" /\ saved) =>
        /\ stressResults # <<>>
        /\ stressResults[Len(stressResults)].stressLevel = result.stressLevel
        /\ stressResults[Len(stressResults)].hour = result.hour

\* C19: the result log is append-only. A step either leaves the log as it
\* is or is a saveResult call that adds its argument behind the entries
\* already there; detectStress and the three readers leave it unchanged.
C19_AppendOnly ==
    [][\/ stressResults' = stressResults
       \/ /\ ~saved /\ saved'
          /\ stressResults' = Append(stressResults, Stored(result))]_vars

\* a second result has been appended behind the first, and a reader has run
C19_Witness ==
    /\ Len(stressResults) = 2
    /\ saved
    /\ calc.done /\ calc.fn = "getUserStats" /\ calc.out.totalScans >= 1

\* C20: the seven integer percentages that detectEmotionClientSide returns
\* sum to 99, 100 or 101.
C20_PercentagesSum ==
    calc.done => SumProb(calc.out.allProbabilities) \in {99, 100, 101}

\* each percentage is rounded on its own: the sum is within 100 +- 3
C20_SumWithinRounding ==
    calc.done => SumProb(calc.out.allProbabilities) \in 97..103

\* C21: on the landmark path each of the seven entries of allProbabilities
\* is an integer from 0 to 100 after the Angry/Neutral and Sad/Neutral
\* adjustments.
C21_ProbabilitiesInRange ==
    (calc.done /\ calc.kind = "landmark") =>
        /\ Len(calc.out.allProbabilities) = 7
        /\ \A i \in 1..7 : calc.out.allProbabilities[i].prob \in 0..100

\* both adjustments apply to a face that is certainly angry: Angry stays
\* at 100 and Neutral at 0
C21_Witness ==
    /\ calc.done /\ calc.kind = "landmark"
    /\ calc.in.expressions = <<0, 0, 0, 100, 0, 0, 0>>
    /\ analyzeFacialLandmarks(calc.in.geometry).browTensionScore > 600
    /\ analyzeFacialLandmarks(calc.in.geometry).eyeFatigueScore > 500
    /\ calc.out.allProbabilities[ProbIndex(calc.out.allProbabilities, "Angry")].prob = 100
    /\ calc.out.allProbabilities[ProbIndex(calc.out.allProbabilities, "Sad")].prob = 15
    /\ calc.out.allProbabilities[ProbIndex(calc.out.allProbabilities, "Neutral")].prob = 0

\* C22: a detectStress() call without an image returns the fixed default
\* result at once, sends no probe, runs no analyzer and leaves both flags
\* and the persisted state as they are; a call with an image never returns
\* the default result.
C22_DefaultWithoutImage ==
    [][/\ (detections' = detections + 1 /\ ~hadImage') =>
             /\ outcome' = "returned"
             /\ result'.emotion = "Neutral" /\ result'.stressLevel = "Low"
             /\ result'.eyeStrain = "Normal" /\ result'.browTension = "Normal"
             /\ result'.facialFatigue = "Normal" /\ result'.confidence = 75
             /\ result'.detectionMethod = "Default"
             /\ probesIssued' = probesIssued
             /\ trace' = <<>>
             /\ pc' = pc
             /\ backendAvailable' = backendAvailable
             /\ faceApiModelsLoaded' = faceApiModelsLoaded
             /\ stressResults' = stressResults
             /\ currentUser' = currentUser
       /\ (outcome' = "returned" /\ result'.detectionMethod = "Default") => ~hadImage']_vars

\* after a detection with an image, a call without one has returned the
\* default result while the flag is resolved
C22_Witness ==
    /\ detections = 2 /\ ~hadImage /\ outcome = "returned"
    /\ result.detectionMethod = "Default" /\ result.confidence = 75
    /\ backendAvailable = "true"
    /\ stressResults # <<>>

\* C23: getKNNResults() always returns a value: the payload of the backend
\* only when the flag was true at its test and the GET answered 2xx with a
\* parsable body, and the fixed stub in every other case (flag false, or
\* still unknown after the probe, or a GET that failed).
C23_KnnPayloadOrStub ==
    [][/\ (pc["knn"] # "ready" /\ pc'["knn"] = "ready") => knnResult' \in {"payload", "stub"}
       /\ (knnCalls' # knnCalls /\ pc'["knn"] = "ready") =>
             knnResult' = "stub" /\ backendAvailable = "false"
       /\ (pc["knn"] \in {"h_fetch", "h_load"} /\ pc'["knn"] = "ready") =>
             knnResult' = "stub" /\ backendAvailable' # "true"
       /\ (pc["knn"] # "k_get" /\ pc'["knn"] = "k_get") => backendAvailable' = "true"
       /\ (knnResult # "payload" /\ knnResult' = "payload") => pc["knn"] = "k_get"
       /\ \A o \in KnnOutcomes : KnnRespond(o) => (knnResult' = "payload" <=> o = "ok")]_vars

\* the stub was returned although the probe found the backend healthy
C23_Witness ==
    /\ knnCalls = 1 /\ pc["knn"] = "ready" /\ knnResult = "stub"
    /\ probeLog.outcome = "healthy" /\ backendAvailable = "true"
    /\ probesIssued = 1

\* C24: once any loadFaceApiModels() call has set faceApiModelsLoaded to
\* true, the flag stays true: no step, in particular no overlapping call
\* whose mirrors all fail, sets it back to false.
C24_LoadedStaysTrue ==
    [][faceApiModelsLoaded => faceApiModelsLoaded']_vars

\* the address a submitted form stands for
Normalized(email) == ToLowerCase(Trim(email))

\* a stored record matches the submitted email and password and is active
ActiveMatch(form) ==
    \E i \in 1..Len(users) :
        /\ users[i].email = Normalized(form.email)
        /\ users[i].password = form.password
        /\ users[i].status = "active"

\* C25: a registration that stores a user appends one record whose status
\* is 'pending'; a login stores the session only if a stored record matches
\* the email and the password and is 'active', and then the session is that
\* record's; a login for a pending record leaves the session as it was;
\* logout removes the session.
C25_AuthSessions ==
    [][/\ (calc'.fn = "register" /\ users' # users) =>
             /\ Len(users') = Len(users) + 1
             /\ SubSeq(users', 1, Len(users)) = users
             /\ users'[Len(users')].status = "pending"
       /\ (currentUser' # currentUser /\ currentUser' # "absent") =>
             /\ calc'.fn = "login"
             /\ ActiveMatch(calc'.in)
             /\ currentUser' = Normalized(calc'.in.email)
       /\ (calc'.fn = "login" /\ ~ActiveMatch(calc'.in)) => currentUser' = currentUser
       /\ (calc'.fn = "login" /\ \E i \in 1..Len(users) :
                                    /\ users[i].email = Normalized(calc'.in.email)
                                    /\ users[i].status = "pending") =>
             currentUser' = currentUser
       /\ calc'.fn = "logout" => currentUser' = "absent"]_vars

\* a user whom the administrator has activated is logged in with the
\* address typed in capitals, while another user is still pending
C25_Witness ==
    /\ calc.done /\ calc.fn = "login" /\ calc.in.email = " Asha@Example.com "
    /\ currentUser = "asha@example.com"
    /\ Len(users) = 2
    /\ \E i, j \in 1..2 : /\ users[i].email = "asha@example.com" /\ users[i].status = "active"
                           /\ users[j].email = "bo@example.com" /\ users[j].status = "pending"

C26_EmotionIsFirstMaximum ==
    (calc.done /\ calc.kind \in {"landmark", "pixel"}) =>
        LET ps == calc.out.allProbabilities
        IN \E i \in 1..Len(ps) :
              /\ ps[i].emotion = calc.out.emotion
              /\ \A j \in 1..Len(ps) : ps[j].prob <= ps[i].prob
              /\ \A j \in 1..(i - 1) : ps[j].prob < ps[i].prob

\* Neutral and Angry share the highest probability and Neutral is reported
C26_Witness ==
    /\ calc.done /\ calc.kind = "landmark"
    /\ calc.out.allProbabilities[1] = Pair("Neutral", 40)
    /\ calc.out.allProbabilities[4] = Pair("Angry", 40)
    /\ calc.out.emotion = "Neutral"

\* the jitter has moved the highest probability of the pixel analyzer from
\* the first entry of the score table to the second
C26_WitnessPixel ==
    /\ calc.done /\ calc.kind = "pixel"
    /\ calc.out.allProbabilities[1].emotion = "Happy"
    /\ calc.out.allProbabilities[2].emotion = "Neutral"
    /\ calc.out.allProbabilities[1].prob < calc.out.allProbabilities[2].prob
    /\ calc.out.emotion = "Neutral"

\* C27: in a result of the landmark analyzer every entry of allFaces has
\* one of the seven canonical emotion names as its emotion and the
\* stressFactor that EMOTIONS gives for that emotion as its stressLevel.
C27_FacesCanonical ==
    (calc.done /\ calc.kind = "landmark") =>
        \A i \in 1..Len(calc.out.allFaces) :
            /\ calc.out.allFaces[i].emotion \in CanonicalEmotions
            /\ calc.out.allFaces[i].stressLevel = EMOTIONS[calc.out.allFaces[i].emotion]

\* C28: a remote call that fails leaves backendAvailable as it was, and the
\* flag, true when that call was attempted, is still true afterwards: the
\* detectStress() invocation with an image that follows a call whose
\* remote attempt failed attempts the remote call first again.
C28_RemoteFailureKeepsFlag ==
    [][/\ (pc["det"] = "d_post" /\ pc'["det"] # "d_post" /\ Has("remote:fail")')
             => backendAvailable' = backendAvailable
       /\ (detections' = detections + 1 /\ hadImage' /\ Has("remote:fail"))
             => /\ backendAvailable = "true"
                /\ pc'["det"] = "d_post"]_vars

\* C29: for a history whose entries in the 7-day window all have a stress
\* level of the vocabulary, trend 'improving' comes with improvementRate
\* above 0, 'worsening' with improvementRate below 0, and a window of one
\* entry gives 'stable' with improvementRate 0.
C29_TrendAndRateAgree ==
    LET w == Last7Days(calc.in)
    IN (calc.done /\ \A i \in 1..Len(w) : w[i].stressLevel \in StressLevels) =>
          /\ calc.out.trend = "improving" => calc.out.improvementRate > 0
          /\ calc.out.trend = "worsening" => calc.out.improvementRate < 0
          /\ Len(w) = 1 => calc.out.trend = "stable" /\ calc.out.improvementRate = 0

\* a High scan followed by a Low scan: improving, with a positive rate
C29_Witness ==
    /\ calc.done /\ Len(calc.in) = 2
    /\ calc.in[1].stressLevel = "High" /\ calc.in[1].age <= WindowDays
    /\ calc.in[2].stressLevel = "Low" /\ calc.in[2].age <= WindowDays
    /\ calc.out.trend = "improving" /\ calc.out.improvementRate = 67

\* a single High scan in the window, behind a stale one
C29_WitnessSingle ==
    /\ calc.done /\ Len(calc.in) = 2 /\ Len(Last7Days(calc.in)) = 1
    /\ calc.in[2].stressLevel = "High"
    /\ calc.out.trend = "stable" /\ calc.out.improvementRate = 0

====
